---- MODULE Spec2Model ----
(***************************************************************************)
(* gcli: the streaming transport and protocol-decoding core of gcli.c.     *)
(*                                                                         *)
(* The model follows generate_session (initial prompt and interactive      *)
(* loop), send_api_request / send_free_api_request (retry loops),          *)
(* perform_api_curl_request, the two libcurl write callbacks with their    *)
(* line decoders, add_content_to_history, the attachment and history       *)
(* commands, session save and load, and the main function of gcmd.c.       *)
(*                                                                         *)
(* Bytes of a response stream are tokens (strings).  LF is the newline,    *)
(* NUL the zero byte; the other tokens stand for the pieces of a line      *)
(* the decoders look at (see cJSON_Parse_sse and cJSON_Parse_free).        *)
(* C strings are sequences of tokens; a char* that may be NULL is a        *)
(* record [nul, s].                                                        *)
(***************************************************************************)
EXTENDS Integers, Sequences, FiniteSets, TLC

(***************************************************************************)
(* Bounds of the model (not program constants).                            *)
(***************************************************************************)
\* longest History for which a new prompt is still accepted by the model
MaxHistory == 2
\* most data-received callbacks libcurl makes during one transfer
MaxCallbacks == 2
\* most Pending Attachments staged in the model
MaxAttach == 1
\* longest byte stream fed to a reassembler on its own
MaxStream == 4
\* longest text fragment of a Protocol B line fed to the decoder on its own
MaxFrag == 3
\* the longest output of gcli that gcmd is given, in tokens
MaxOutput == 3

(***************************************************************************)
(* Program constants.                                                      *)
(***************************************************************************)
max_retries == 3
HTTP_OK == 200
HTTP_UNAVAILABLE == 503
HTTP_BAD_REQUEST == 400
CURLE_OK == 0
CURLE_FAILED_INIT == 2
CURLE_COULDNT_CONNECT == 7
CURLE_WRITE_ERROR == 23
CURLE_OUT_OF_MEMORY == 27
CURLE_RECV_ERROR == 56

(***************************************************************************)
(* Strings.                                                                *)
(***************************************************************************)
LF == "LF"
NUL == "NUL"
\* stands for the six bytes "data: "
DATA == "data: "
TextChar == {"a", "b"}

NULL == [nul |-> TRUE, s |-> <<>>]
Str(s) == [nul |-> FALSE, s |-> s]

\* strchr(buf, c): position of the first c before the terminating zero, 0 for NULL
RECURSIVE strchr_from(_, _, _)
strchr_from(buf, c, k) ==
    IF k > Len(buf) THEN 0
    ELSE IF buf[k] = NUL THEN 0
    ELSE IF buf[k] = c THEN k
    ELSE strchr_from(buf, c, k + 1)

strchr(buf, c) == strchr_from(buf, c, 1)

\* the bytes of buf from position k on (k may be Len(buf) + 1)
From(buf, k) == SubSeq(buf, k, Len(buf))

\* true when s starts with the tokens of p (strncmp(s, p, Len(p)) == 0)
StartsWith(s, p) == Len(s) >= Len(p) /\ SubSeq(s, 1, Len(p)) = p

(***************************************************************************)
(* Protocol A decoder.                                                     *)
(***************************************************************************)
\* length of the run of text characters of s starting at k
RECURSIVE TextRun(_, _)
TextRun(s, k) ==
    IF k <= Len(s) /\ s[k] \in TextChar THEN 1 + TextRun(s, k + 1) ELSE 0

\* cJSON_Parse of the JSON of an event line, reduced to what process_line
\* reads from it.  <<"{", c1, .., cn, "}">> is an object whose
\* candidates[0].content.parts[0].text is the string c1..cn; <<"o">> is an
\* object without that path; cJSON_Parse ignores what follows the first
\* value; anything else does not parse.
cJSON_Parse_sse(s) ==
    IF Len(s) >= 1 /\ s[1] = "o"
    THEN [valid |-> TRUE, text |-> NULL]
    ELSE IF Len(s) >= 1 /\ s[1] = "{"
              /\ 2 + TextRun(s, 2) <= Len(s) /\ s[2 + TextRun(s, 2)] = "}"
         THEN [valid |-> TRUE, text |-> Str(SubSeq(s, 2, 1 + TextRun(s, 2)))]
         ELSE [valid |-> FALSE, text |-> NULL]

\* process_line, had it thrown the accumulated response away on a line it
\* cannot use
process_line_reset(line, mem, realloc_ok) ==
    IF ~StartsWith(line, <<DATA>>) THEN mem
    ELSE LET json == cJSON_Parse_sse(Tail(line)) IN
         IF ~json.valid \/ json.text.nul THEN [mem EXCEPT !.full_response = <<>>]
         ELSE [mem EXCEPT
                 !.printed = @ \o json.text.s,
                 !.full_response = IF realloc_ok THEN @ \o json.text.s ELSE @]

\* process_line: mem is the MemoryStruct, realloc_ok the result of the
\* realloc of full_response.  printed collects what went to stdout.
process_line(line, mem, realloc_ok) ==
    IF ~StartsWith(line, <<DATA>>) THEN mem
    ELSE LET json == cJSON_Parse_sse(Tail(line)) IN
         IF ~json.valid \/ json.text.nul THEN mem
         ELSE [mem EXCEPT
                 !.printed = @ \o json.text.s,
                 !.full_response = IF realloc_ok THEN @ \o json.text.s ELSE @]

\* a MemoryStruct (Protocol A) or an AppState (Protocol B) that is being
\* traced has a field lines: the lines handed to the decoder so far
\* (observation, not program state)
Traced(mem, line) ==
    IF "lines" \in DOMAIN mem THEN [mem EXCEPT !.lines = Append(@, line)] ELSE mem

\* the while loop of write_memory_callback, had it also handed the
\* unterminated rest of the buffer to process_line
RECURSIVE sse_lines_flushing(_, _)
sse_lines_flushing(mem, realloc_ok) ==
    LET line_end == strchr(mem.buffer, LF) IN
    IF line_end = 0
    THEN IF mem.buffer = <<>> THEN mem
         ELSE [process_line(mem.buffer, Traced(mem, mem.buffer), realloc_ok)
                  EXCEPT !.buffer = <<>>]
    ELSE LET line == SubSeq(mem.buffer, 1, line_end - 1) IN
         sse_lines_flushing(
           [process_line(line, Traced(mem, line), realloc_ok)
               EXCEPT !.buffer = From(mem.buffer, line_end + 1)],
           realloc_ok)

\* the while loop of write_memory_callback over the complete lines of the buffer
RECURSIVE sse_lines(_, _)
sse_lines(mem, realloc_ok) ==
    LET line_end == strchr(mem.buffer, LF) IN
    IF line_end = 0 THEN mem
    ELSE LET line == SubSeq(mem.buffer, 1, line_end - 1) IN
         sse_lines(
           [process_line(line, Traced(mem, line), realloc_ok)
               EXCEPT !.buffer = From(mem.buffer, line_end + 1)],
           realloc_ok)

\* write_memory_callback, had it discarded the unterminated rest of the buffer
\* after the loop instead of moving it to the front
write_memory_callback_drop_rest(contents, mem, buf_ok, realloc_ok) ==
    IF ~buf_ok THEN [mem |-> mem, ret |-> 0]
    ELSE [mem |-> [sse_lines([mem EXCEPT !.buffer = @ \o contents], realloc_ok)
                      EXCEPT !.buffer = <<>>],
          ret |-> Len(contents)]

\* write_memory_callback: ret is the value returned to libcurl
write_memory_callback(contents, mem, buf_ok, realloc_ok) ==
    IF ~buf_ok THEN [mem |-> mem, ret |-> 0]
    ELSE [mem |-> sse_lines([mem EXCEPT !.buffer = @ \o contents], realloc_ok),
          ret |-> Len(contents)]

(***************************************************************************)
(* Protocol B decoder.                                                     *)
(***************************************************************************)
\* stands for the literal "\\nhttp://googleusercontent.com/immersive_entry_chip/0\\n"
NOISE == "chip"
\* the four bytes )]}' that open a Protocol B response
FREE_PREFIX == <<")", "]", "}", "'">>

\* str_replace(orig, rep, ""): orig without the occurrences of the token rep
RECURSIVE str_replace(_, _)
str_replace(orig, rep) ==
    IF orig = <<>> THEN <<>>
    ELSE IF Head(orig) = rep THEN str_replace(Tail(orig), rep)
    ELSE <<Head(orig)>> \o str_replace(Tail(orig), rep)

\* the elements process_free_line reads, when none of them is there
NoItems ==
    [root |-> TRUE, wrb_fr_array |-> TRUE, stringified_json |-> TRUE,
     inner_root |-> TRUE, item5 |-> FALSE, item5_0 |-> NULL, item5_4 |-> NULL,
     item4_0 |-> FALSE, text_item |-> NULL, code_item |-> NULL]

\* cJSON_Parse of a candidate line and of the JSON string at [0][2], reduced
\* to the elements process_free_line reads.  A line is <<"[", k, c1..cn, "]">>
\* where the token k says which elements the line carries and c1..cn is the
\* string found there:
\*   t  inner[4][0][1][0] (text)         c  inner[4][0][30][0][4] (code)
\*   l  inner[5][0]                      m  inner[5][4]
\*   5  inner[5] without a string at 0 and 4
\*   e  root[0] is an array without element 2
\*   n  root[0] is not an array          i  the string at [0][2] is not JSON
\*   u  inner JSON without elements 4 and 5
\*   4  inner[4][0] without a string at [1][0] and at [30][0][4]
\* A line that does not end its array does not parse.
cJSON_Parse_free(s) ==
    IF Len(s) >= 3 /\ s[1] = "[" /\ s[2] \in {"t", "c", "l", "m", "5", "e", "n", "i", "u", "4"}
          /\ 3 + TextRun(s, 3) <= Len(s) /\ s[3 + TextRun(s, 3)] = "]"
    THEN LET k == s[2]
             str == Str(SubSeq(s, 3, 2 + TextRun(s, 3)))
         IN  CASE k = "n" -> [NoItems EXCEPT !.wrb_fr_array = FALSE,
                                !.stringified_json = FALSE, !.inner_root = FALSE]
               [] k = "e" -> [NoItems EXCEPT !.stringified_json = FALSE, !.inner_root = FALSE]
               [] k = "i" -> [NoItems EXCEPT !.inner_root = FALSE]
               [] k = "u" -> NoItems
               [] k = "4" -> [NoItems EXCEPT !.item4_0 = TRUE]
               [] k = "5" -> [NoItems EXCEPT !.item5 = TRUE]
               [] k = "l" -> [NoItems EXCEPT !.item5 = TRUE, !.item5_0 = str]
               [] k = "m" -> [NoItems EXCEPT !.item5 = TRUE, !.item5_4 = str]
               [] k = "t" -> [NoItems EXCEPT !.item4_0 = TRUE, !.text_item = str]
               [] k = "c" -> [NoItems EXCEPT !.item4_0 = TRUE, !.code_item = str]
    ELSE [NoItems EXCEPT !.root = FALSE, !.wrb_fr_array = FALSE,
            !.stringified_json = FALSE, !.inner_root = FALSE]

\* loc_tile is an unsigned int used as a bit mask
Bit(x, b) == (x \div b) % 2 = 1
ClearBit(x, b) == IF Bit(x, b) THEN x - b ELSE x
SetBit(x, b) == IF Bit(x, b) THEN x ELSE x + b

\* free_emission, had it printed the whole text of an extension
free_emission_whole(last, current_text) ==
    LET last_len == IF last.nul THEN 0 ELSE Len(last.s)
        current_len == Len(current_text)
    IN  IF current_len > last_len
           /\ SubSeq(current_text, 1, last_len) = (IF last.nul THEN <<>> ELSE last.s)
        THEN <<[kind |-> "suffix", erase |-> 0, text |-> current_text]>>
        ELSE IF last_len > 0 /\ current_len < last_len
        THEN <<[kind |-> "repaint", erase |-> last_len, text |-> current_text]>>
        ELSE <<>>

\* free_emission, had its repaint blanked the length of the new text
free_emission_erase_new(last, current_text) ==
    LET last_len == IF last.nul THEN 0 ELSE Len(last.s)
        current_len == Len(current_text)
    IN  IF current_len > last_len
           /\ SubSeq(current_text, 1, last_len) = (IF last.nul THEN <<>> ELSE last.s)
        THEN <<[kind |-> "suffix", erase |-> 0,
                text |-> SubSeq(current_text, last_len + 1, current_len)]>>
        ELSE IF last_len > 0 /\ current_len < last_len
        THEN <<[kind |-> "repaint", erase |-> current_len, text |-> current_text]>>
        ELSE <<>>

\* what process_free_line prints for the text current_text when the Fragment
\* Memory is last: nothing, the appended suffix (erase = 0), or a repaint
\* "\r%*s\r%s" that blanks erase columns and prints the whole text
free_emission(last, current_text) ==
    LET last_len == IF last.nul THEN 0 ELSE Len(last.s)
        current_len == Len(current_text)
    IN  IF current_len > last_len
           /\ SubSeq(current_text, 1, last_len) = (IF last.nul THEN <<>> ELSE last.s)
        THEN <<[kind |-> "suffix", erase |-> 0,
                text |-> SubSeq(current_text, last_len + 1, current_len)]>>
        ELSE IF last_len > 0 /\ current_len < last_len
        THEN <<[kind |-> "repaint", erase |-> last_len, text |-> current_text]>>
        ELSE <<>>

\* an AppState that is being traced has a field out: what was printed for
\* text fragments so far (observation, not program state)
Emitted(st, events) ==
    IF "out" \in DOMAIN st THEN [st EXCEPT !.out = @ \o events] ELSE st

\* what process_free_line prints when a line without [0][2] ends a code
\* block: "\n\n%s\n" with the buffered code, nothing when none is buffered
code_display(final) ==
    IF final.nul THEN <<>> ELSE <<[kind |-> "code", erase |-> 0, text |-> final.s]>>

\* what process_free_line prints for a side-channel value: "%s\n" with the
\* string at inner[5][0] (loc), "https:%s\n" with the one at inner[5][4] (map)
loc_display(kind, str) == <<[kind |-> kind, erase |-> 0, text |-> str.s]>>

\* the side-channel branch, had it left the request bit set after printing
side_channel_keeping_bit(j, st) ==
    IF j.item5
    THEN [(IF Bit(st.loc_tile, 1)
           THEN (IF ~j.item5_0.nul THEN Emitted(st, loc_display("loc", j.item5_0)) ELSE st)
           ELSE IF Bit(st.loc_tile, 2)
           THEN (IF ~j.item5_4.nul THEN Emitted(st, loc_display("map", j.item5_4)) ELSE st)
           ELSE st) EXCEPT
             !.loc_tile =
                 IF Bit(st.loc_tile, 1)
                 THEN (IF ~j.item5_0.nul THEN SetBit(@, 4) ELSE @)
                 ELSE IF Bit(st.loc_tile, 2)
                 THEN (IF ~j.item5_4.nul THEN SetBit(@, 4) ELSE @)
                 ELSE @,
             !.loc_gathered = TRUE]
    ELSE st

\* the side-channel branch of process_free_line, had it cleared the request
\* bit of a printed value without setting the done bit 4
side_channel_releasing(j, st) ==
    IF j.item5
    THEN [(IF Bit(st.loc_tile, 1)
           THEN (IF ~j.item5_0.nul THEN Emitted(st, loc_display("loc", j.item5_0)) ELSE st)
           ELSE IF Bit(st.loc_tile, 2)
           THEN (IF ~j.item5_4.nul THEN Emitted(st, loc_display("map", j.item5_4)) ELSE st)
           ELSE st) EXCEPT
             !.loc_tile =
                 IF Bit(st.loc_tile, 1)
                 THEN (IF ~j.item5_0.nul THEN ClearBit(@, 1) ELSE @)
                 ELSE IF Bit(st.loc_tile, 2)
                 THEN (IF ~j.item5_4.nul THEN ClearBit(@, 2) ELSE @)
                 ELSE @,
             !.loc_gathered = TRUE]
    ELSE st

\* process_free_line when loc_tile > 0: a line with inner[5] serves the
\* request of bit 0, else ("else if") that of bit 1, and sets loc_gathered;
\* the rest of the line is not read
side_channel(j, st) ==
    IF j.item5
    THEN [(IF Bit(st.loc_tile, 1)
           THEN (IF ~j.item5_0.nul THEN Emitted(st, loc_display("loc", j.item5_0)) ELSE st)
           ELSE IF Bit(st.loc_tile, 2)
           THEN (IF ~j.item5_4.nul THEN Emitted(st, loc_display("map", j.item5_4)) ELSE st)
           ELSE st) EXCEPT
             !.loc_tile =
                 IF Bit(st.loc_tile, 1)
                 THEN (IF ~j.item5_0.nul THEN SetBit(ClearBit(@, 1), 4) ELSE @)
                 ELSE IF Bit(st.loc_tile, 2)
                 THEN (IF ~j.item5_4.nul THEN SetBit(ClearBit(@, 2), 4) ELSE @)
                 ELSE @,
             !.loc_gathered = TRUE]
    ELSE st

\* what process_free_line writes to stderr for a line that is not JSON
parse_error == <<[kind |-> "error", erase |-> 0, text |-> <<>>]>>

\* the end of a code block, had the buffered code been kept after its display
end_of_code_block_keeping(st) == Emitted(st, code_display(st.final_code))

\* a line without [0][2] ends a code block: the buffered code is printed and
\* released
end_of_code_block(st) ==
    [Emitted(st, code_display(st.final_code)) EXCEPT !.final_code = NULL]

\* the code buffer, had it taken whatever is found on the code path
stored_code_unguarded(j, final) == j.code_item

\* the code buffer after a line: the string at inner[4][0][30][0][4] when
\* there is one, else what was buffered
stored_code(j, final) ==
    IF j.item4_0 /\ ~j.code_item.nul THEN j.code_item ELSE final

\* process_free_line, had it stored whatever it found on the text path
process_free_line_clearing(line, st) ==
    LET j == cJSON_Parse_free(str_replace(line, NOISE)) IN
    IF ~j.root THEN Emitted(st, parse_error)
    ELSE IF ~j.wrb_fr_array THEN st
    ELSE IF ~j.stringified_json THEN end_of_code_block(st)
    ELSE IF ~j.inner_root THEN st
    ELSE IF st.loc_tile > 0 THEN side_channel(j, st)
    ELSE [(IF ~j.text_item.nul
           THEN Emitted(st, free_emission(st.last_free_response_part, j.text_item.s))
           ELSE st) EXCEPT
            !.last_free_response_part = j.text_item,
            !.final_code = stored_code(j, @)]

\* process_free_line on the AppState fields it touches:
\* st = [loc_tile, loc_gathered, last_free_response_part, final_code]
process_free_line(line, st) ==
    LET j == cJSON_Parse_free(str_replace(line, NOISE)) IN
    IF ~j.root THEN Emitted(st, parse_error)
    ELSE IF ~j.wrb_fr_array THEN st
    ELSE IF ~j.stringified_json THEN end_of_code_block(st)
    ELSE IF ~j.inner_root THEN st
    ELSE IF st.loc_tile > 0 THEN side_channel(j, st)
    ELSE [(IF ~j.text_item.nul
           THEN Emitted(st, free_emission(st.last_free_response_part, j.text_item.s))
           ELSE st) EXCEPT
            !.last_free_response_part = IF ~j.text_item.nul THEN j.text_item ELSE @,
            !.final_code = stored_code(j, @)]

\* the while loop of write_free_memory_callback: line_start is a position in buffer
RECURSIVE free_lines(_, _, _)
free_lines(buffer, line_start, st) ==
    LET line_end == strchr(From(buffer, line_start), LF) IN
    IF line_end = 0 THEN [line_start |-> line_start, st |-> st]
    ELSE LET line == SubSeq(buffer, line_start, line_start + line_end - 2) IN
         free_lines(buffer, line_start + line_end,
                    IF line # <<>> /\ line[1] = "["
                    THEN process_free_line(line, Traced(st, line)) ELSE st)

\* write_free_memory_callback, had it refused its bytes once the decoder has
\* set loc_gathered
write_free_memory_callback_aborting(contents, mem, st, buf_ok) ==
    LET current_contents ==
            IF Len(mem.buffer) = 0 /\ Len(contents) > 4 /\ StartsWith(contents, FREE_PREFIX)
            THEN From(contents, 5) ELSE contents
        buffer == mem.buffer \o current_contents
        done == free_lines(buffer, 1, st)
    IN  IF ~buf_ok THEN [mem |-> mem, st |-> st, ret |-> 0]
        ELSE [mem |-> [mem EXCEPT !.buffer =
                          IF done.line_start <= Len(buffer)
                          THEN From(buffer, done.line_start) ELSE <<>>],
              st |-> done.st,
              ret |-> IF done.st.loc_gathered THEN 0 ELSE Len(contents)]

\* write_free_memory_callback: mem is the MemoryStruct, st the AppState fields
write_free_memory_callback(contents, mem, st, buf_ok) ==
    LET current_contents ==
            IF Len(mem.buffer) = 0 /\ Len(contents) > 4 /\ StartsWith(contents, FREE_PREFIX)
            THEN From(contents, 5) ELSE contents
        buffer == mem.buffer \o current_contents
        done == free_lines(buffer, 1, st)
    IN  IF ~buf_ok THEN [mem |-> mem, st |-> st, ret |-> 0]
        ELSE [mem |-> [mem EXCEPT !.buffer =
                          IF done.line_start <= Len(buffer)
                          THEN From(buffer, done.line_start) ELSE <<>>],
              st |-> done.st,
              ret |-> Len(contents)]

(***************************************************************************)
(* Data model: Part, Content (Turn), History.                              *)
(***************************************************************************)
ATTACHMENT_LIMIT == 1024
MAX_FREE_MODE_CONTEXT_SIZE == 102400

TextPart(s) ==
    [type |-> "PART_TYPE_TEXT", text |-> s, mime_type |-> NULL,
     base64_data |-> NULL, filename |-> NULL]

FilePart(mime, data, name) ==
    [type |-> "PART_TYPE_FILE", text |-> NULL, mime_type |-> mime,
     base64_data |-> data, filename |-> name]

\* the Part handle_attachment_from_stream stages: formatted text in free
\* mode, a base64 file otherwise
AttachedPart(free) ==
    IF free THEN TextPart(Str(<<"f">>))
    ELSE FilePart(Str(<<"m">>), Str(<<"d">>), Str(<<"f">>))

\* the same for the file named filepath
AttachedFile(free, filepath) ==
    IF free THEN TextPart(Str(filepath))
    ELSE FilePart(Str(<<"m">>), Str(<<"d">>), Str(filepath))

\* handle_attachment_from_stream on the pending attachments; read_ok is
\* false when the file cannot be read or memory runs out
handle_attachment_from_stream(parts, filepath, free, read_ok) ==
    IF Len(parts) >= ATTACHMENT_LIMIT \/ ~read_ok THEN parts
    ELSE Append(parts, AttachedFile(free, filepath))

\* /attachments remove that always drops the last attachment
attachments_remove_last(parts, index_to_remove) ==
    IF index_to_remove < 0 \/ index_to_remove >= Len(parts) THEN parts
    ELSE SubSeq(parts, 1, Len(parts) - 1)

\* /attachments remove <index> on the pending attachments
attachments_remove(parts, index_to_remove) ==
    IF index_to_remove < 0 \/ index_to_remove >= Len(parts) THEN parts
    ELSE [k \in 1..(Len(parts) - 1) |->
             IF k <= index_to_remove THEN parts[k] ELSE parts[k + 1]]

\* free_pending_attachments, had it left num_attached_parts as it was
free_pending_attachments_keeping(parts) == parts

\* free_pending_attachments: the fields of every pending Part are freed and
\* num_attached_parts is set to 0
free_pending_attachments(parts) == <<>>

\* the deep copy add_content_to_history makes of one Part
CopyPart(p) ==
    IF p.type = "PART_TYPE_TEXT"
    THEN [type |-> p.type, text |-> p.text, mime_type |-> NULL,
          base64_data |-> NULL, filename |-> NULL]
    ELSE [type |-> p.type, text |-> NULL, mime_type |-> p.mime_type,
          base64_data |-> p.base64_data, filename |-> p.filename]

\* add_content_to_history, had it copied the Parts in reverse order
add_content_to_history_reversed(h, role, parts, alloc_ok) ==
    IF ~alloc_ok THEN h
    ELSE Append(h, [role |-> role,
                    parts |-> [k \in 1..Len(parts) |->
                                  CopyPart(parts[Len(parts) + 1 - k])]])

\* add_content_to_history; alloc_ok is false when realloc or malloc fails
add_content_to_history(h, role, parts, alloc_ok) ==
    IF ~alloc_ok THEN h
    ELSE Append(h, [role |-> role,
                    parts |-> [k \in 1..Len(parts) |-> CopyPart(parts[k])]])

\* "if (num_contents > 0) { num_contents--; free_content(...); }"
RollbackLast(h) == IF Len(h) > 0 THEN SubSeq(h, 1, Len(h) - 1) ELSE h

\* strlen of a char* that may be NULL, as the callers guard it
StrLenOr0(o) == IF o.nul THEN 0 ELSE Len(o.s)

\* history_len of the free-mode prompt handler: the first Part's text of every Turn
RECURSIVE HistoryLen(_)
HistoryLen(h) ==
    IF h = <<>> THEN 0
    ELSE (IF Len(Head(h).parts) > 0 THEN StrLenOr0(Head(h).parts[1].text) ELSE 0)
         + HistoryLen(Tail(h))

\* the sum of strlen over the pending attachments that carry text
RECURSIVE TextsLen(_)
TextsLen(parts) ==
    IF parts = <<>> THEN 0 ELSE StrLenOr0(Head(parts).text) + TextsLen(Tail(parts))

\* strcat of the text of every pending attachment that has one
RECURSIVE CatTexts(_)
CatTexts(parts) ==
    IF parts = <<>> THEN <<>>
    ELSE (IF Head(parts).text.nul THEN <<>> ELSE Head(parts).text.s) \o CatTexts(Tail(parts))


(***************************************************************************)
(* Session persistence.  A JSON document is modelled by the items the      *)
(* loader looks at: "contents" is a sequence of objects with a "role"      *)
(* (NULL when it is missing or not a string) and a "parts" array; a part   *)
(* object has a "text" (NULL when missing or not a string) and an          *)
(* "inlineData" object, which may be missing and whose "mimeType" and      *)
(* "data" may be missing.  cJSON_AddStringToObject adds nothing when the   *)
(* string is NULL.                                                         *)
(***************************************************************************)
NoInlineData == [present |-> FALSE, mimeType |-> NULL, data |-> NULL]

\* build_request_json: the object written for one Part
part_item(p) ==
    IF p.type = "PART_TYPE_TEXT"
    THEN [text |-> p.text, inlineData |-> NoInlineData]
    ELSE [text |-> NULL,
          inlineData |-> [present |-> TRUE, mimeType |-> p.mime_type,
                          data |-> p.base64_data]]

\* build_request_json, as far as load_history_from_file reads it back
build_request_json(h) ==
    [contents |-> [k \in 1..Len(h) |->
                      [role |-> Str(h[k].role),
                       parts |-> [j \in 1..Len(h[k].parts) |-> part_item(h[k].parts[j])]]]]

\* a zero-initialised Part, as calloc returns it (PART_TYPE_TEXT is 0)
ZeroPart == TextPart(NULL)

\* load_history_from_file with the two mimeType/data fields read crosswise
loaded_part_crosswise(item) ==
    IF ~item.text.nul THEN TextPart(item.text)
    ELSE IF item.inlineData.present
            /\ ~item.inlineData.mimeType.nul /\ ~item.inlineData.data.nul
    THEN FilePart(item.inlineData.data, item.inlineData.mimeType, NULL)
    ELSE ZeroPart

\* load_history_from_file: the Part made from one part object
loaded_part(item) ==
    IF ~item.text.nul THEN TextPart(item.text)
    ELSE IF item.inlineData.present
            /\ ~item.inlineData.mimeType.nul /\ ~item.inlineData.data.nul
    THEN FilePart(item.inlineData.mimeType, item.inlineData.data, NULL)
    ELSE ZeroPart

\* load_history_from_file: the loop over "contents", appending to h.
\* calloc0_null tells whether calloc(0, ...) returns NULL on this build;
\* allocations of a positive size succeed.
RECURSIVE load_contents(_, _, _)
load_contents(contents, h, calloc0_null) ==
    IF contents = <<>> THEN h
    ELSE LET content_item == Head(contents)
             num_parts == Len(content_item.parts)
             loaded_parts == [j \in 1..num_parts |-> loaded_part(content_item.parts[j])]
         IN  IF content_item.role.nul \/ (num_parts = 0 /\ calloc0_null)
             THEN load_contents(Tail(contents), h, calloc0_null)
             ELSE load_contents(Tail(contents),
                     add_content_to_history(h, content_item.role.s, loaded_parts, TRUE),
                     calloc0_null)

\* load_history_from_file on a file that parses as a JSON object: History is
\* emptied, then filled from "contents"
load_history_from_file(doc, calloc0_null) == load_contents(doc.contents, <<>>, calloc0_null)

(***************************************************************************)
(* State.                                                                  *)
(***************************************************************************)
VARIABLES
    \* AppState
    history, attached_parts, free_mode, loc_tile, loc_gathered,
    last_free_response_part, final_code,
    \* generate_session: where the session is, and whether it is interactive
    pc, interactive,
    \* locals of send_api_request / send_free_api_request
    i, http_code, res, chunk, success,
    \* the transfer in progress inside curl_easy_perform
    xfer,
    \* observation of the request in progress (not program state)
    req

appVars == <<history, attached_parts, free_mode, loc_tile, loc_gathered,
             last_free_response_part, final_code>>
sendVars == <<i, http_code, res, chunk, success>>
vars == <<appVars, pc, interactive, sendVars, xfer, req>>

EmptyChunk == [buffer |-> <<>>, full_response |-> <<>>, printed |-> <<>>]
\* xfer: the transfer of the attempt under way: the HTTP status it receives,
\* the callbacks run, whether a callback refused its bytes, the fragment
\* decoded, and whether the last callback could grow its buffer
NoXfer == [status |-> 0, ncb |-> 0, aborted |-> FALSE, decoded |-> NULL, grow_ok |-> TRUE]
\* A request body, by what it carries of the conversation: the "contents" of
\* build_request_json (Protocol A) or the transcript string of
\* build_free_request_payload (Protocol B).  nul: no body was built.
NoPayload == [nul |-> TRUE, contents |-> <<>>, transcript |-> <<>>]

\* role_cap: the role with its first letter in upper case
role_cap(role) ==
    IF role = "user" THEN "User" ELSE IF role = "model" THEN "Model" ELSE role

\* the transcript of build_free_request_payload: "%s: %s\n\n" for every Turn
\* whose first Part has a text, then "User: %s" with the current prompt
RECURSIVE full_transcript(_, _)
full_transcript(h, current_prompt) ==
    IF h = <<>> THEN <<"User", ": ">> \o current_prompt
    ELSE (IF Len(Head(h).parts) > 0 /\ ~Head(h).parts[1].text.nul
          THEN <<role_cap(Head(h).role), ": ">> \o Head(h).parts[1].text.s \o <<"\n\n">>
          ELSE <<>>)
         \o full_transcript(Tail(h), current_prompt)

\* build_free_request_payload; ok is false when an allocation in it fails
build_free_request_payload(h, current_prompt, ok) ==
    IF ok THEN [nul |-> FALSE, contents |-> <<>>,
                transcript |-> full_transcript(h, current_prompt)]
    ELSE NoPayload

\* send_api_request, step 1: the JSON of build_request_json, printed and
\* compressed; ok is false when one of the three fails
compressed_result(h, ok) ==
    IF ok THEN [nul |-> FALSE, contents |-> build_request_json(h).contents,
                transcript |-> <<>>]
    ELSE NoPayload

\* the body handed to the transfer of loop iteration k, were the body
\* released after the first iteration
attempt_payload_released(payload, k) == IF k = 0 THEN payload ELSE NoPayload

\* the body handed to the transfer of loop iteration k: the one built before
\* the loop
attempt_payload(payload, k) == payload

\* req: the prompt being handled, or the one the last command handled.
\* outcome is "none" while the request runs; hist0 and staged are History
\* and the pending attachments as they were when the prompt was submitted;
\* log has one entry for each loop iteration.
NoReq == [path |-> "none", prompt |-> <<>>, hist0 |-> <<>>, added |-> FALSE,
          attempts |-> 0, delays |-> 0, log |-> <<>>, buf_failed |-> FALSE,
          outcome |-> "none", text |-> NULL, hist1 |-> <<>>, payload |-> NoPayload,
          staged |-> <<>>]

\* the locals of a send function once it has returned
LeaveSend ==
    /\ i' = 0 /\ http_code' = 0 /\ res' = CURLE_OK /\ success' = FALSE
    /\ chunk' = EmptyChunk
    /\ xfer' = NoXfer

\* the observation kept of a finished request
Finished(ok, text) ==
    [NoReq EXCEPT !.path = req.path, !.prompt = req.prompt, !.hist0 = req.hist0,
                  !.added = req.added, !.staged = req.staged,
                  !.outcome = IF ok THEN "success" ELSE "failure",
                  !.text = text]

\* the state when section 6 of generate_session is reached: options parsed
\* (parse_common_options), file arguments attached, --loc/--map forcing
\* free mode
Init ==
    /\ history = <<>>
    /\ free_mode \in BOOLEAN
    /\ loc_tile \in 0..3
    /\ loc_tile > 0 => free_mode
    /\ \E n \in 0..MaxAttach, arg_free \in BOOLEAN :
          /\ arg_free => free_mode
          /\ attached_parts = [k \in 1..n |-> AttachedPart(arg_free)]
    /\ loc_gathered = FALSE
    /\ last_free_response_part = NULL
    /\ final_code = NULL
    /\ pc = "start"
    /\ interactive \in BOOLEAN
    /\ i = 0 /\ http_code = 0 /\ res = CURLE_OK
    /\ chunk = EmptyChunk
    /\ success = FALSE
    /\ xfer = NoXfer
    /\ req = NoReq

\* where generate_session goes after a prompt has been handled
AfterPrompt(path) == IF path = "initial" /\ ~interactive THEN "exit" ELSE "idle"

(***************************************************************************)
(* Inputs of the model.                                                    *)
(***************************************************************************)
\* what the user types as a prompt: nothing, or some text
PromptTexts == {<<>>, <<"p">>}
\* the prompt generate_session substitutes under --loc/--map ("echo 'hello'")
LocPrompt == <<"e">>

\* chunks a Protocol A transfer hands to the callback
SseChunks ==
    { <<DATA, "{", "a", "}", LF>>,
      <<DATA, "{", "b", "}">>,
      <<LF>> }

\* chunks a Protocol B transfer hands to the callback
FreeChunks ==
    { <<"[", "t", "a", "]", LF>>,
      <<"[", "l", "a", "]", LF>>,
      <<"[", "5", "]", LF>> }

\* HTTP status of a transfer; 0 when no response arrived
Statuses == {0, HTTP_OK, HTTP_UNAVAILABLE, HTTP_BAD_REQUEST}

(***************************************************************************)
(* Retry decisions.                                                        *)
(***************************************************************************)
\* perform_api_curl_request, had it returned the status as libcurl reports it
perform_api_curl_request_plain(r, code) == code

\* perform_api_curl_request: the value returned for a transfer that ended
\* with CURLcode r after HTTP status code (0: none)
perform_api_curl_request(r, code) ==
    IF r # CURLE_OK /\ code = 0 THEN 0 - r ELSE code

\* send_api_request, step 5, had it retried after every status but 200
api_attempt_retry_all(code) ==
    IF code = HTTP_OK THEN "success" ELSE "retry"

\* send_api_request, step 5: what the loop does with the returned code
api_attempt(code) ==
    IF code = HTTP_OK THEN "success"
    ELSE IF code = HTTP_UNAVAILABLE THEN "retry"
    ELSE "fail"

\* send_free_api_request, had its success test left out the aborted transfer
free_success_completed_only(r, code, gathered) ==
    r = CURLE_OK /\ code = HTTP_OK

\* send_free_api_request: the success test of the loop and of the final return
free_success(r, code, gathered) ==
    (r = CURLE_OK /\ code = HTTP_OK) \/ (r = CURLE_WRITE_ERROR /\ gathered)

\* send_free_api_request, decision logic for the current attempt
free_attempt(r, code, gathered) ==
    IF free_success(r, code, gathered) THEN "success"
    ELSE IF code = HTTP_UNAVAILABLE THEN "retry"
    ELSE "fail"

\* the retry delay, had it not been skipped after the final attempt
sleeps_always(k) == TRUE

\* "if (i < max_retries - 1) sleep(2)": whether a retry sleeps
sleeps(k) == k < max_retries - 1

\* one line of the observation log of a request: x is the transfer (NoXfer
\* when nothing was sent)
LogEntry(sent, x, code, r, result, slept) ==
    [sent |-> sent, code |-> code, res |-> r, status |-> x.status,
     gathered |-> loc_gathered, result |-> result, slept |-> slept,
     payload |-> IF sent THEN attempt_payload(req.payload, i) ELSE NoPayload]

\* the observation of a request after one more loop iteration
Logged(e) ==
    [req EXCEPT !.attempts = @ + 1,
                !.delays = @ + (IF e.slept THEN 1 ELSE 0),
                !.log = Append(@, e)]

(***************************************************************************)
(* generate_session: the initial prompt.                                   *)
(***************************************************************************)
\* the call of send_api_request up to its retry loop (payload_ok: the JSON
\* was built, printed and compressed, and the MemoryStruct allocated)
EnterApi(payload_ok) ==
    /\ pc' = IF payload_ok THEN "api_loop" ELSE "api_ret"
    /\ i' = 0 /\ http_code' = 0 /\ res' = CURLE_OK /\ success' = FALSE
    /\ chunk' = EmptyChunk
    /\ xfer' = NoXfer

\* the call of send_free_api_request up to its retry loop
EnterFree(payload_ok) ==
    /\ pc' = IF payload_ok THEN "free_loop" ELSE "free_ret"
    /\ i' = 0 /\ http_code' = 0 /\ res' = CURLE_OK /\ success' = FALSE
    /\ chunk' = EmptyChunk
    /\ xfer' = NoXfer

NewReq(path, prompt, added) ==
    [NoReq EXCEPT !.path = path, !.prompt = prompt, !.hist0 = history, !.added = added,
                  !.staged = attached_parts]

\* the observation of a request once its send function has been entered with
\* History h and has built payload
Entered(r, h, payload) == [r EXCEPT !.hist1 = h, !.payload = payload]

\* section 6, no prompt on the command line
NoInitialPrompt ==
    /\ pc = "start"
    /\ loc_tile = 0
    /\ pc' = IF interactive THEN "idle" ELSE "exit"
    /\ UNCHANGED <<appVars, interactive, sendVars, xfer, req>>

\* section 6 with a prompt: the user Turn is appended, the pending
\* attachments are released and the request is started
InitialPrompt(prompt, parts_ok, add_ok, payload_ok) ==
    /\ pc = "start"
    /\ prompt # <<>>
    /\ loc_tile > 0 => prompt = LocPrompt
    /\ Len(history) < MaxHistory
    /\ IF ~parts_ok
       THEN /\ pc' = IF interactive THEN "idle" ELSE "exit"
            /\ UNCHANGED <<appVars, sendVars, xfer, req>>
       ELSE /\ history' = add_content_to_history(history, "user",
                             attached_parts \o <<TextPart(Str(prompt))>>, add_ok)
            /\ attached_parts' = free_pending_attachments(attached_parts)
            /\ req' = Entered(NewReq("initial", prompt, add_ok), history',
                               IF free_mode
                               THEN build_free_request_payload(history', prompt, payload_ok)
                               ELSE compressed_result(history', payload_ok))
            /\ IF free_mode
               THEN /\ last_free_response_part' = NULL
                    /\ EnterFree(payload_ok)
               ELSE /\ UNCHANGED last_free_response_part
                    /\ EnterApi(payload_ok)
            /\ UNCHANGED <<free_mode, loc_tile, loc_gathered, final_code>>
    /\ UNCHANGED interactive

(***************************************************************************)
(* send_api_request (Protocol A).                                          *)
(***************************************************************************)
\* what the loop of send_api_request does once perform_api_curl_request has
\* returned code for a transfer that ended with CURLcode r
ApiDecide(sent, r, code) ==
    LET result == api_attempt(code)
        slept == result = "retry" /\ sleeps(i)
        again == result = "retry" /\ i + 1 < max_retries
    IN  /\ http_code' = code
        /\ res' = r
        /\ success' = (result = "success")
        /\ i' = IF result = "retry" THEN i + 1 ELSE i
        /\ pc' = IF again THEN "api_loop" ELSE "api_ret"
        /\ req' = Logged(LogEntry(sent, IF sent THEN xfer ELSE NoXfer,
                                   code, r, result, slept))

\* top of the loop: the buffers are reset and perform_api_curl_request is
\* entered; curl_ok is false when curl_easy_init fails; status is the HTTP
\* status the transfer will receive (0: none)
ApiAttemptStart(curl_ok, status) ==
    /\ pc = "api_loop"
    /\ IF curl_ok
       THEN /\ chunk' = EmptyChunk
            /\ xfer' = [NoXfer EXCEPT !.status = status]
            /\ pc' = "api_xfer"
            /\ UNCHANGED <<i, http_code, res, success, req>>
       ELSE /\ chunk' = EmptyChunk
            /\ xfer' = NoXfer
            /\ ApiDecide(FALSE, CURLE_FAILED_INIT, 0 - CURLE_FAILED_INIT)
    /\ UNCHANGED <<appVars, interactive>>

\* libcurl hands body bytes to write_memory_callback
ApiCallback(contents, buf_ok, realloc_ok) ==
    /\ pc = "api_xfer"
    /\ xfer.status # 0
    /\ ~xfer.aborted
    /\ xfer.ncb < MaxCallbacks
    /\ LET r == write_memory_callback(contents, chunk, buf_ok, realloc_ok) IN
         /\ chunk' = r.mem
         /\ xfer' = [xfer EXCEPT !.ncb = @ + 1, !.aborted = (r.ret # Len(contents)),
                                 !.grow_ok = buf_ok]
         /\ req' = [req EXCEPT !.buf_failed = @ \/ ~buf_ok]
    /\ UNCHANGED <<appVars, pc, interactive, i, http_code, res, success>>

\* curl_easy_perform returns: CURLE_WRITE_ERROR after a callback that did not
\* take its bytes, a connection error when no response arrived, else r
XferResult(r) ==
    IF xfer.aborted THEN CURLE_WRITE_ERROR
    ELSE IF xfer.status = 0 THEN CURLE_COULDNT_CONNECT
    ELSE r

ApiTransferEnd(r) ==
    /\ pc = "api_xfer"
    /\ r \in {CURLE_OK, CURLE_RECV_ERROR}
    /\ ApiDecide(TRUE, XferResult(r), perform_api_curl_request(XferResult(r), xfer.status))
    /\ UNCHANGED <<appVars, interactive, chunk, xfer>>

(***************************************************************************)
(* send_free_api_request (Protocol B).                                     *)
(***************************************************************************)
\* the decision logic of one attempt and, when the loop ends, the final return
FreeDecide(r, code) ==
    LET result == free_attempt(r, code, loc_gathered)
        slept == result = "retry" /\ sleeps(i)
        again == result = "retry" /\ i + 1 < max_retries
    IN  /\ http_code' = code
        /\ res' = r
        /\ i' = IF result = "retry" THEN i + 1 ELSE i
        /\ pc' = IF again THEN "free_loop" ELSE "free_ret"
        /\ success' = free_success(r, code, loc_gathered)
        /\ req' = Logged(LogEntry(TRUE, xfer, code, r, result, slept))

\* top of the loop; setup tells whether curl_easy_init and curl_easy_escape
\* worked.  A failed init leaves the loop, a failed escape goes on to the
\* next iteration; http_code keeps the value of the previous attempt.
FreeAttemptStart(setup, status) ==
    /\ pc = "free_loop"
    /\ setup \in {"ok", "init_failed", "escape_failed"}
    /\ CASE setup = "ok" ->
              /\ chunk' = EmptyChunk
              /\ http_code' = 0
              /\ xfer' = [NoXfer EXCEPT !.status = status]
              /\ pc' = "free_xfer"
              /\ UNCHANGED <<i, res, success, req>>
         [] setup = "init_failed" ->
              /\ res' = CURLE_FAILED_INIT
              /\ pc' = "free_ret"
              /\ success' = free_success(CURLE_FAILED_INIT, http_code, loc_gathered)
              /\ req' = Logged(LogEntry(FALSE, NoXfer, http_code,
                                             CURLE_FAILED_INIT, "fail", FALSE))
              /\ UNCHANGED <<i, http_code, chunk, xfer>>
         [] setup = "escape_failed" ->
              /\ res' = CURLE_OUT_OF_MEMORY
              /\ i' = i + 1
              /\ pc' = IF i + 1 < max_retries THEN "free_loop" ELSE "free_ret"
              /\ success' = free_success(CURLE_OUT_OF_MEMORY, http_code, loc_gathered)
              /\ req' = Logged(LogEntry(FALSE, NoXfer, http_code,
                                             CURLE_OUT_OF_MEMORY, "again", FALSE))
              /\ UNCHANGED <<http_code, chunk, xfer>>
    /\ UNCHANGED <<appVars, interactive>>

\* the AppState fields process_free_line works on
FreeState ==
    [loc_tile |-> loc_tile, loc_gathered |-> loc_gathered,
     last_free_response_part |-> last_free_response_part, final_code |-> final_code]

\* libcurl hands body bytes to write_free_memory_callback
FreeCallback(contents, buf_ok) ==
    /\ pc = "free_xfer"
    /\ xfer.status # 0
    /\ ~xfer.aborted
    /\ xfer.ncb < MaxCallbacks
    /\ LET r == write_free_memory_callback(contents, chunk, FreeState, buf_ok)
           \* the fragment this callback decoded, if any
           probe == write_free_memory_callback(contents, chunk,
                       [FreeState EXCEPT !.last_free_response_part = NULL], buf_ok)
                       .st.last_free_response_part
       IN
         /\ chunk' = r.mem
         /\ loc_tile' = r.st.loc_tile
         /\ loc_gathered' = r.st.loc_gathered
         /\ last_free_response_part' = r.st.last_free_response_part
         /\ final_code' = r.st.final_code
         /\ xfer' = [xfer EXCEPT !.ncb = @ + 1, !.aborted = (r.ret # Len(contents)),
                                 !.decoded = IF probe.nul THEN @ ELSE probe,
                                 !.grow_ok = buf_ok]
         /\ req' = [req EXCEPT !.buf_failed = @ \/ ~buf_ok]
    /\ UNCHANGED <<history, attached_parts, free_mode,
                   pc, interactive, i, http_code, res, success>>

FreeTransferEnd(r) ==
    /\ pc = "free_xfer"
    /\ r \in {CURLE_OK, CURLE_RECV_ERROR}
    /\ FreeDecide(XferResult(r), xfer.status)
    /\ UNCHANGED <<appVars, interactive, chunk, xfer>>

(***************************************************************************)
(* generate_session: what the caller does with the result of a request.    *)
(***************************************************************************)
\* after send_api_request, on the initial-prompt and the interactive path
FinishApi(add_ok) ==
    /\ pc = "api_ret"
    /\ IF success
       THEN history' = add_content_to_history(history, "model",
                           <<TextPart(Str(chunk.full_response))>>, add_ok)
       ELSE history' = RollbackLast(history)
    /\ pc' = AfterPrompt(req.path)
    /\ req' = Finished(success, Str(chunk.full_response))
    /\ LeaveSend
    /\ UNCHANGED <<attached_parts, free_mode, loc_tile, loc_gathered,
                   last_free_response_part, final_code, interactive>>

\* after send_free_api_request on the initial-prompt path: the user Turn is
\* already in History
FinishFreeInitial(add_ok) ==
    /\ pc = "free_ret"
    /\ req.path = "initial"
    /\ history' =
         IF success
         THEN IF ~last_free_response_part.nul
              THEN add_content_to_history(history, "model",
                       <<TextPart(last_free_response_part)>>, add_ok)
              ELSE history
         ELSE RollbackLast(history)
    /\ pc' = AfterPrompt(req.path)
    /\ req' = Finished(success, last_free_response_part)
    /\ LeaveSend
    /\ UNCHANGED <<attached_parts, free_mode, loc_tile, loc_gathered,
                   last_free_response_part, final_code, interactive>>

\* after send_free_api_request in the interactive loop: both Turns are
\* appended only now, and only on success
FinishFreeInteractive(user_ok, add_ok) ==
    /\ pc = "free_ret"
    /\ req.path = "interactive"
    /\ history' =
         IF success
         THEN LET h == add_content_to_history(history, "user",
                           <<TextPart(Str(req.prompt))>>, user_ok)
              IN  IF ~last_free_response_part.nul
                  THEN add_content_to_history(h, "model",
                           <<TextPart(last_free_response_part)>>, add_ok)
                  ELSE h
         ELSE history
    /\ pc' = AfterPrompt(req.path)
    /\ req' = Finished(success, last_free_response_part)
    /\ LeaveSend
    /\ UNCHANGED <<attached_parts, free_mode, loc_tile, loc_gathered,
                   last_free_response_part, final_code, interactive>>

(***************************************************************************)
(* generate_session: the interactive loop.                                 *)
(***************************************************************************)
\* a prompt line in official-API mode
PromptApi(p, parts_ok, add_ok, payload_ok) ==
    /\ pc = "idle"
    /\ ~free_mode
    /\ p \in PromptTexts
    /\ Len(attached_parts) + (IF Len(p) > 0 THEN 1 ELSE 0) > 0
    /\ Len(history) < MaxHistory
    /\ IF ~parts_ok
       THEN /\ req' = NoReq
            /\ UNCHANGED <<appVars, pc, interactive, sendVars, xfer>>
       ELSE /\ history' = add_content_to_history(history, "user",
                             attached_parts \o
                                (IF Len(p) > 0 THEN <<TextPart(Str(p))>> ELSE <<>>),
                             add_ok)
            /\ attached_parts' = free_pending_attachments(attached_parts)
            /\ req' = Entered(NewReq("interactive", p, add_ok), history',
                               compressed_result(history', payload_ok))
            /\ EnterApi(payload_ok)
            /\ UNCHANGED <<free_mode, loc_tile, loc_gathered, last_free_response_part,
                           final_code, interactive>>

\* a prompt line in free mode
PromptFree(p, prompt_ok, payload_ok) ==
    /\ pc = "idle"
    /\ free_mode
    /\ p \in PromptTexts
    /\ ~(p = <<>> /\ Len(attached_parts) = 0)
    /\ Len(history) < MaxHistory
    /\ LET current_turn_len == TextsLen(attached_parts) + Len(p) + 1 IN
       IF current_turn_len <= 1 /\ Len(attached_parts) = 0
       THEN /\ req' = NoReq
            /\ UNCHANGED <<appVars, pc, interactive, sendVars, xfer>>
       ELSE IF HistoryLen(history) + current_turn_len > MAX_FREE_MODE_CONTEXT_SIZE
                 \/ ~prompt_ok
       THEN /\ attached_parts' = free_pending_attachments(attached_parts)
            /\ UNCHANGED <<history, free_mode, loc_tile, loc_gathered,
                           last_free_response_part, final_code,
                           pc, interactive, sendVars, xfer>>
            /\ req' = NoReq
       ELSE /\ attached_parts' = free_pending_attachments(attached_parts)
            /\ last_free_response_part' = NULL
            /\ req' = Entered(NewReq("interactive", CatTexts(attached_parts) \o p, FALSE),
                               history,
                               build_free_request_payload(history,
                                   CatTexts(attached_parts) \o p, payload_ok))
            /\ EnterFree(payload_ok)
            /\ UNCHANGED <<history, free_mode, loc_tile, loc_gathered,
                           final_code, interactive>>

\* /attach, /paste: handle_attachment_from_stream; read_ok is false when the
\* file cannot be read or memory runs out
Attach(read_ok) ==
    /\ pc = "idle"
    /\ Len(attached_parts) < MaxAttach
    /\ attached_parts' =
         handle_attachment_from_stream(attached_parts, <<"f">>, free_mode, read_ok)
    /\ UNCHANGED <<history, free_mode, loc_tile, loc_gathered, last_free_response_part, final_code, pc, interactive, sendVars, xfer>>
    /\ req' = NoReq

\* /attachments remove <index>
AttachmentsRemove(index_to_remove) ==
    /\ pc = "idle"
    /\ index_to_remove \in 0..(Len(attached_parts) - 1)
    /\ attached_parts' = attachments_remove(attached_parts, index_to_remove)
    /\ UNCHANGED <<history, free_mode, loc_tile, loc_gathered, last_free_response_part, final_code, pc, interactive, sendVars, xfer>>
    /\ req' = NoReq

\* /attachments clear
AttachmentsClear ==
    /\ pc = "idle"
    /\ attached_parts # <<>>
    /\ attached_parts' = free_pending_attachments(attached_parts)
    /\ UNCHANGED <<history, free_mode, loc_tile, loc_gathered, last_free_response_part, final_code, pc, interactive, sendVars, xfer>>
    /\ req' = NoReq

\* /stats: the pending attachments are appended as a Turn for the token
\* count and the last Turn is dropped afterwards, whether or not the append
\* worked; with an empty History and a failed append the code frees
\* contents[-1], after which nothing is known about the session
Stats(add_ok) ==
    /\ pc = "idle"
    /\ ~(Len(history) = 0 /\ Len(attached_parts) = 0)
    /\ IF Len(attached_parts) > 0
       THEN LET h == add_content_to_history(history, "user", attached_parts, add_ok) IN
            IF Len(h) > 0
            THEN /\ history' = SubSeq(h, 1, Len(h) - 1)
                 /\ pc' = pc
            ELSE /\ history' = h
                 /\ pc' = "undefined"
       ELSE UNCHANGED <<history, pc>>
    /\ UNCHANGED <<attached_parts, free_mode, loc_tile, loc_gathered, last_free_response_part, final_code, interactive, sendVars, xfer>>
    /\ req' = NoReq

\* /clear, /session new: clear_session_state
Clear ==
    /\ pc = "idle"
    /\ history' = <<>>
    /\ last_free_response_part' = NULL
    /\ final_code' = NULL
    /\ attached_parts' = free_pending_attachments(attached_parts)
    /\ UNCHANGED <<free_mode, loc_tile, loc_gathered, pc, interactive, sendVars, xfer>>
    /\ req' = NoReq


\* /history attachments remove <msg_idx:part_idx>
HistoryAttachmentsRemove(msg_idx, part_idx) ==
    /\ pc \in {"idle", "persist"}
    /\ msg_idx \in 0..(Len(history) - 1)
    /\ part_idx \in 0..(Len(history[msg_idx + 1].parts) - 1)
    /\ LET content == history[msg_idx + 1] IN
       /\ content.parts[part_idx + 1].type = "PART_TYPE_FILE"
       /\ history' = [history EXCEPT ![msg_idx + 1].parts =
                         [k \in 1..(Len(content.parts) - 1) |->
                             IF k <= part_idx THEN content.parts[k]
                             ELSE content.parts[k + 1]]]
    /\ UNCHANGED <<attached_parts, free_mode, loc_tile, loc_gathered,
                   last_free_response_part, final_code, pc, interactive, sendVars, xfer>>
    /\ req' = NoReq

\* /exit, /quit, end of input
Exit ==
    /\ pc = "idle"
    /\ pc' = "exit"
    /\ UNCHANGED <<appVars, interactive, sendVars, xfer>>
    /\ req' = NoReq

(***************************************************************************)
(* The session.                                                            *)
(***************************************************************************)
Next ==
    \/ NoInitialPrompt
    \/ \E prompt \in {<<"p">>, LocPrompt}, parts_ok, add_ok, payload_ok \in BOOLEAN :
          InitialPrompt(prompt, parts_ok, add_ok, payload_ok)
    \/ \E p \in PromptTexts, parts_ok, add_ok, payload_ok \in BOOLEAN :
          PromptApi(p, parts_ok, add_ok, payload_ok)
    \/ \E p \in PromptTexts, prompt_ok, payload_ok \in BOOLEAN :
          PromptFree(p, prompt_ok, payload_ok)
    \/ \E curl_ok \in BOOLEAN, status \in Statuses : ApiAttemptStart(curl_ok, status)
    \/ \E contents \in SseChunks, buf_ok, realloc_ok \in BOOLEAN :
          ApiCallback(contents, buf_ok, realloc_ok)
    \/ \E r \in {CURLE_OK, CURLE_RECV_ERROR} : ApiTransferEnd(r)
    \/ \E add_ok \in BOOLEAN : FinishApi(add_ok)
    \/ \E setup \in {"ok", "init_failed", "escape_failed"}, status \in Statuses :
          FreeAttemptStart(setup, status)
    \/ \E contents \in FreeChunks, buf_ok \in BOOLEAN : FreeCallback(contents, buf_ok)
    \/ \E r \in {CURLE_OK, CURLE_RECV_ERROR} : FreeTransferEnd(r)
    \/ \E add_ok \in BOOLEAN : FinishFreeInitial(add_ok)
    \/ \E user_ok, add_ok \in BOOLEAN : FinishFreeInteractive(user_ok, add_ok)
    \/ \E read_ok \in BOOLEAN : Attach(read_ok)
    \/ \E k \in 0..(MaxAttach - 1) : AttachmentsRemove(k)
    \/ AttachmentsClear
    \/ \E add_ok \in BOOLEAN : Stats(add_ok)
    \/ \E msg_idx \in 0..(MaxHistory - 1), part_idx \in 0..MaxAttach :
          HistoryAttachmentsRemove(msg_idx, part_idx)
    \/ Clear
    \/ Exit

Spec == Init /\ [][Next]_vars

(***************************************************************************)
(* A session started with --loc or --map: free mode is forced and the      *)
(* prompt of the command line is replaced (generate_session), then the     *)
(* session goes on with prompts, /clear and exit.                          *)
(***************************************************************************)
InitLoc == Init /\ loc_tile > 0 /\ attached_parts = <<>>

\* chunks of a Protocol B transfer, with a map value among them
LocChunks == FreeChunks \cup { <<"[", "m", "a", "]", LF>> }

NextLoc ==
    \/ \E parts_ok, add_ok, payload_ok \in BOOLEAN :
          InitialPrompt(LocPrompt, parts_ok, add_ok, payload_ok)
    \/ \E p \in PromptTexts, prompt_ok, payload_ok \in BOOLEAN :
          PromptFree(p, prompt_ok, payload_ok)
    \/ \E setup \in {"ok", "init_failed", "escape_failed"}, status \in Statuses :
          FreeAttemptStart(setup, status)
    \/ \E contents \in LocChunks, buf_ok \in BOOLEAN : FreeCallback(contents, buf_ok)
    \/ \E r \in {CURLE_OK, CURLE_RECV_ERROR} : FreeTransferEnd(r)
    \/ \E add_ok \in BOOLEAN : FinishFreeInitial(add_ok)
    \/ \E user_ok, add_ok \in BOOLEAN : FinishFreeInteractive(user_ok, add_ok)
    \/ Clear
    \/ Exit

SpecLoc == InitLoc /\ [][NextLoc]_vars

TypeOK ==
    /\ pc \in {"start", "idle", "api_loop", "api_xfer", "api_ret",
               "free_loop", "free_xfer", "free_ret", "exit", "undefined", "feed",
               "feed_free", "decode_free", "persist", "saved", "loaded", "staging",
               "gcmd_main", "gcmd_output", "gcmd_exit", "decode_sse",
               "decode_free_line"}
    /\ i \in 0..max_retries
    /\ loc_tile \in 0..7
    /\ Len(attached_parts) <= MaxAttach

(***************************************************************************)
(* One non-interactive run: a single prompt and its request.  Every        *)
(* transfer ends and every decision is taken, hence the fairness.          *)
(***************************************************************************)
RequestStep ==
    \/ \E curl_ok \in BOOLEAN, status \in Statuses : ApiAttemptStart(curl_ok, status)
    \/ \E contents \in SseChunks, buf_ok, realloc_ok \in BOOLEAN :
          ApiCallback(contents, buf_ok, realloc_ok)
    \/ \E r \in {CURLE_OK, CURLE_RECV_ERROR} : ApiTransferEnd(r)
    \/ \E setup \in {"ok", "init_failed", "escape_failed"}, status \in Statuses :
          FreeAttemptStart(setup, status)
    \/ \E contents \in FreeChunks, buf_ok \in BOOLEAN : FreeCallback(contents, buf_ok)
    \/ \E r \in {CURLE_OK, CURLE_RECV_ERROR} : FreeTransferEnd(r)

InitRetry == Init /\ ~interactive /\ attached_parts = <<>>

NextRetry ==
    \/ \E prompt \in {<<"p">>, LocPrompt}, parts_ok, add_ok, payload_ok \in BOOLEAN :
          InitialPrompt(prompt, parts_ok, add_ok, payload_ok)
    \/ RequestStep
    \/ \E add_ok \in BOOLEAN : FinishApi(add_ok)
    \/ \E add_ok \in BOOLEAN : FinishFreeInitial(add_ok)

SpecRetry == InitRetry /\ [][NextRetry]_vars /\ WF_vars(RequestStep)

(***************************************************************************)
(* The Protocol A reassembler on its own: a byte stream is handed to       *)
(* write_memory_callback in consecutive chunks, cut anywhere.  xfer holds  *)
(* the stream, what is left of it, and the MemoryStruct obtained by        *)
(* feeding the stream in one chunk.  Allocations succeed.                  *)
(***************************************************************************)
\* pieces the streams are made of
StreamPieces == { <<LF>>, <<DATA, "{", "a", "}">>, <<"b">>, <<NUL>> }

RECURSIVE Flatten(_)
Flatten(q) == IF q = <<>> THEN <<>> ELSE Head(q) \o Flatten(Tail(q))

Streams == { Flatten(q) : q \in UNION { [1..n -> StreamPieces] : n \in 0..MaxStream } }

TracedChunk == [buffer |-> <<>>, full_response |-> <<>>, printed |-> <<>>, lines |-> <<>>]

InitReasm ==
    /\ history = <<>> /\ attached_parts = <<>> /\ free_mode = FALSE
    /\ loc_tile = 0 /\ loc_gathered = FALSE
    /\ last_free_response_part = NULL /\ final_code = NULL
    /\ pc = "feed" /\ interactive = FALSE
    /\ i = 0 /\ http_code = 0 /\ res = CURLE_OK /\ success = FALSE
    /\ chunk = TracedChunk
    /\ req = NoReq
    /\ \E stream \in Streams :
          xfer = [stream |-> stream, rest |-> stream,
                  whole |-> write_memory_callback(stream, TracedChunk, TRUE, TRUE).mem]

\* the next n bytes of the stream arrive
FeedChunk(n) ==
    /\ pc = "feed"
    /\ n \in 1..Len(xfer.rest)
    /\ chunk' = write_memory_callback(SubSeq(xfer.rest, 1, n), chunk, TRUE, TRUE).mem
    /\ xfer' = [xfer EXCEPT !.rest = From(@, n + 1)]
    /\ UNCHANGED <<appVars, pc, interactive, i, http_code, res, success, req>>

NextReasm == \E n \in 1..(5 * MaxStream) : FeedChunk(n)

SpecReasm == InitReasm /\ [][NextReasm]_vars

(***************************************************************************)
(* The Protocol A decoder on its own: as SpecReasm, but the realloc of     *)
(* full_response in process_line may fail in any callback.                 *)
(***************************************************************************)
DecodeChunk(n, realloc_ok) ==
    /\ pc = "feed"
    /\ n \in 1..Len(xfer.rest)
    /\ chunk' = write_memory_callback(SubSeq(xfer.rest, 1, n), chunk, TRUE, realloc_ok).mem
    /\ xfer' = [xfer EXCEPT !.rest = From(@, n + 1)]
    /\ UNCHANGED <<appVars, pc, interactive, i, http_code, res, success, req>>

NextDecode == \E n \in 1..(5 * MaxStream), realloc_ok \in BOOLEAN : DecodeChunk(n, realloc_ok)

SpecDecode == InitReasm /\ [][NextDecode]_vars

(***************************************************************************)
(* The Protocol B reassembler on its own: a byte stream is handed to       *)
(* write_free_memory_callback in consecutive chunks, cut anywhere.  xfer   *)
(* holds the stream, what is left of it, the lines handed to               *)
(* process_free_line so far, and the lines handed to it when the stream    *)
(* arrives in one chunk.  Allocations succeed.                             *)
(***************************************************************************)
\* pieces the streams are made of
FreeStreamPieces ==
    { FREE_PREFIX, <<LF>>, <<"[", "t", "a", "]", LF>>, <<"[", "t", "b", "]">> }

FreeStreams ==
    { Flatten(q) : q \in UNION { [1..n -> FreeStreamPieces] : n \in 0..MaxStream } }

\* the AppState fields of a fresh request, with the trace of lines
TracedState ==
    [loc_tile |-> 0, loc_gathered |-> FALSE, last_free_response_part |-> NULL,
     final_code |-> NULL, lines |-> <<>>]

InitReasmFree ==
    /\ history = <<>> /\ attached_parts = <<>> /\ free_mode = TRUE
    /\ loc_tile = 0 /\ loc_gathered = FALSE
    /\ last_free_response_part = NULL /\ final_code = NULL
    /\ pc = "feed_free" /\ interactive = FALSE
    /\ i = 0 /\ http_code = 0 /\ res = CURLE_OK /\ success = FALSE
    /\ chunk = EmptyChunk
    /\ req = NoReq
    /\ \E stream \in FreeStreams :
          xfer = [stream |-> stream, rest |-> stream, lines |-> <<>>,
                  whole |-> write_free_memory_callback(stream, EmptyChunk,
                                                       TracedState, TRUE).st.lines]

\* the next n bytes of the stream arrive
FeedFreeChunk(n) ==
    /\ pc = "feed_free"
    /\ n \in 1..Len(xfer.rest)
    /\ LET r == write_free_memory_callback(SubSeq(xfer.rest, 1, n), chunk,
                    [TracedState EXCEPT
                        !.last_free_response_part = last_free_response_part,
                        !.lines = xfer.lines], TRUE)
       IN  /\ chunk' = r.mem
           /\ last_free_response_part' = r.st.last_free_response_part
           /\ xfer' = [xfer EXCEPT !.rest = From(@, n + 1), !.lines = r.st.lines]
    /\ UNCHANGED <<history, attached_parts, free_mode, loc_tile, loc_gathered,
                   final_code, pc, interactive, i, http_code, res, success, req>>

NextReasmFree == \E n \in 1..(5 * MaxStream) : FeedFreeChunk(n)

SpecReasmFree == InitReasmFree /\ [][NextReasmFree]_vars

(***************************************************************************)
(* The end of a transfer in either protocol: a response body of Protocol A *)
(* or of Protocol B arrives in chunks of any size, and the transfer may    *)
(* stop after any of them.  Allocations succeed.                           *)
(***************************************************************************)
InitTail == InitReasm \/ InitReasmFree

NextTail == NextReasm \/ NextReasmFree

SpecTail == InitTail /\ [][NextTail]_vars

(***************************************************************************)
(* The Protocol B decoder on its own: the lines of one response, each      *)
(* carrying a text fragment, are handed to process_free_line one after     *)
(* the other.  xfer holds the Fragment Memory before the last line (prev), *)
(* the fragment of that line (frag), what the line made the decoder print  *)
(* (out) and the terminal line after it (screen).                          *)
(***************************************************************************)
Fragments == UNION { [1..n -> TextChar] : n \in 0..MaxFrag }

\* the terminal line the response is printed on: its columns and the
\* position of the cursor (the number of columns to its left).  BLANK is
\* the space "%*s" pads with.
BLANK == " "
EmptyLine == [cols |-> <<>>, cur |-> 0]

\* text written at the cursor, over what the columns held
put_text(line, text) ==
    LET width == IF line.cur + Len(text) > Len(line.cols)
                 THEN line.cur + Len(text) ELSE Len(line.cols)
    IN  [cols |-> [k \in 1..width |->
                      IF k > line.cur /\ k <= line.cur + Len(text)
                      THEN text[k - line.cur]
                      ELSE IF k <= Len(line.cols) THEN line.cols[k] ELSE BLANK],
         cur |-> line.cur + Len(text)]

\* the line after printf("\r%*s\r%s", erase, "", text): back to column 1,
\* erase blanks, back to column 1, the text
put_repaint(line, erase, text) ==
    put_text([put_text([line EXCEPT !.cur = 0], [k \in 1..erase |-> BLANK])
                 EXCEPT !.cur = 0], text)

\* the line after the events a fragment made the decoder print;
\* printf("%s", diff) writes the suffix at the cursor
RECURSIVE display(_, _)
display(line, events) ==
    IF events = <<>> THEN line
    ELSE display(IF Head(events).kind = "suffix"
                 THEN put_text(line, Head(events).text)
                 ELSE IF Head(events).kind = "repaint"
                 THEN put_repaint(line, Head(events).erase, Head(events).text)
                 ELSE line,
                 Tail(events))

\* what the user sees of a line: its columns up to the last one not blank
RECURSIVE visible(_)
visible(cols) ==
    IF cols = <<>> THEN <<>>
    ELSE IF cols[Len(cols)] = BLANK THEN visible(SubSeq(cols, 1, Len(cols) - 1))
    ELSE cols

InitFragments ==
    /\ history = <<>> /\ attached_parts = <<>> /\ free_mode = TRUE
    /\ loc_tile \in 0..3 /\ loc_gathered = FALSE
    /\ last_free_response_part = NULL /\ final_code = NULL
    /\ pc = "decode_free" /\ interactive = FALSE
    /\ i = 0 /\ http_code = 0 /\ res = CURLE_OK /\ success = FALSE
    /\ chunk = EmptyChunk
    /\ req = NoReq
    /\ xfer = [prev |-> NULL, frag |-> NULL, out |-> <<>>, screen |-> EmptyLine]

\* a line with the text fragment text at inner[4][0][1][0] arrives
DecodeFragment(text) ==
    /\ pc = "decode_free"
    /\ LET st == process_free_line(<<"[", "t">> \o text \o <<"]">>,
                     [loc_tile |-> loc_tile, loc_gathered |-> loc_gathered,
                      last_free_response_part |-> last_free_response_part,
                      final_code |-> final_code, out |-> <<>>])
       IN  /\ last_free_response_part' = st.last_free_response_part
           /\ xfer' = [prev |-> last_free_response_part, frag |-> Str(text),
                       out |-> st.out, screen |-> display(xfer.screen, st.out)]
    /\ UNCHANGED <<history, attached_parts, free_mode, loc_tile, loc_gathered,
                   final_code, pc, interactive, i, http_code, res, success, chunk, req>>

NextFragments == \E text \in Fragments : DecodeFragment(text)

SpecFragments == InitFragments /\ [][NextFragments]_vars


(***************************************************************************)
(* The commands that act on History between two requests: /save, /load     *)
(* and /history attachments remove.  The session starts from any History   *)
(* that prompts, attachments and earlier loads can have built; /load reads *)
(* either the file /save has just written or a file written elsewhere.     *)
(* xfer holds the file /save wrote (file) and History as it was when it    *)
(* was written (saved).                                                    *)
(***************************************************************************)
PartKinds ==
    { TextPart(Str(<<"a">>)),
      FilePart(Str(<<"m">>), Str(<<"d">>), Str(<<"f">>)),
      FilePart(Str(<<"m">>), Str(<<"d">>), NULL) }

Turns ==
    { [role |-> "user", parts |-> ps] :
          ps \in UNION { [1..n -> PartKinds] : n \in 1..(MaxAttach + 1) } }
    \cup { [role |-> "model", parts |-> <<TextPart(Str(<<"b">>))>>] }

Histories == UNION { [1..n -> Turns] : n \in 0..MaxHistory }

\* part objects of a file written elsewhere
ItemKinds ==
    { [text |-> Str(<<"a">>), inlineData |-> NoInlineData],
      [text |-> NULL, inlineData |-> [present |-> TRUE, mimeType |-> Str(<<"m">>),
                                      data |-> Str(<<"d">>)]],
      [text |-> NULL, inlineData |-> [present |-> TRUE, mimeType |-> Str(<<"m">>),
                                      data |-> NULL]],
      [text |-> NULL, inlineData |-> NoInlineData] }

\* files written elsewhere: one object in "contents" with up to two parts
SessionFiles ==
    { [contents |-> <<[role |-> r, parts |-> ps]>>] :
          r \in {Str("user"), NULL},
          ps \in UNION { [1..n -> ItemKinds] : n \in 0..2 } }

NoFile == [saved |-> <<>>, file |-> [contents |-> <<>>]]

InitPersist ==
    /\ history \in Histories
    /\ attached_parts = <<>> /\ free_mode = FALSE
    /\ loc_tile = 0 /\ loc_gathered = FALSE
    /\ last_free_response_part = NULL /\ final_code = NULL
    /\ pc = "persist" /\ interactive = TRUE
    /\ i = 0 /\ http_code = 0 /\ res = CURLE_OK /\ success = FALSE
    /\ chunk = EmptyChunk
    /\ req = NoReq
    /\ xfer = NoFile

\* /save <file>: save_history_to_file
SaveHistory ==
    /\ pc = "persist"
    /\ pc' = "saved"
    /\ xfer' = [saved |-> history, file |-> build_request_json(history)]
    /\ UNCHANGED <<appVars, interactive, sendVars, req>>

\* /load <file> of the file just saved: load_history_from_file
LoadHistory(calloc0_null) ==
    /\ pc = "saved"
    /\ pc' = "loaded"
    /\ history' = load_history_from_file(xfer.file, calloc0_null)
    /\ UNCHANGED <<attached_parts, free_mode, loc_tile, loc_gathered,
                   last_free_response_part, final_code, interactive, sendVars, xfer, req>>

\* /load <file> of a file written elsewhere: load_history_from_file
LoadFile(doc, calloc0_null) ==
    /\ pc = "persist"
    /\ history' = load_history_from_file(doc, calloc0_null)
    /\ UNCHANGED <<attached_parts, free_mode, loc_tile, loc_gathered,
                   last_free_response_part, final_code, pc, interactive, sendVars, xfer, req>>

NextPersist ==
    \/ SaveHistory
    \/ \E calloc0_null \in BOOLEAN : LoadHistory(calloc0_null)
    \/ \E doc \in SessionFiles, calloc0_null \in BOOLEAN : LoadFile(doc, calloc0_null)
    \/ \E msg_idx \in 0..(MaxHistory - 1), part_idx \in 0..MaxAttach :
          HistoryAttachmentsRemove(msg_idx, part_idx)

SpecPersist == InitPersist /\ [][NextPersist]_vars

(***************************************************************************)
(* The Pending Attachments on their own: /attach, /attachments remove and  *)
(* /attachments clear in any order, after any number of files were        *)
(* attached from the command line.  Files named "g" are attached only      *)
(* while the list is short, the others are named "f".  xfer holds the last *)
(* command (op), the index it was given and the number of attachments      *)
(* before it (num).                                                        *)
(***************************************************************************)
InitStaging ==
    /\ history = <<>> /\ free_mode = FALSE
    /\ \E n \in 0..ATTACHMENT_LIMIT, first \in {<<"f">>, <<"g">>} :
          attached_parts = [k \in 1..n |->
              AttachedFile(FALSE, IF k = 1 THEN first ELSE <<"f">>)]
    /\ loc_tile = 0 /\ loc_gathered = FALSE
    /\ last_free_response_part = NULL /\ final_code = NULL
    /\ pc = "staging" /\ interactive = TRUE
    /\ i = 0 /\ http_code = 0 /\ res = CURLE_OK /\ success = FALSE
    /\ chunk = EmptyChunk
    /\ req = NoReq
    /\ xfer = [op |-> "none", index |-> 0, num |-> 0]

\* /attach <filename>
StageAttach(filepath, read_ok) ==
    /\ pc = "staging"
    /\ Len(attached_parts) >= MaxAttach => filepath = <<"f">>
    /\ attached_parts' =
         handle_attachment_from_stream(attached_parts, filepath, free_mode, read_ok)
    /\ xfer' = [op |-> IF read_ok THEN "attach" ELSE "attach_unread",
                index |-> 0, num |-> Len(attached_parts)]
    /\ UNCHANGED <<history, free_mode, loc_tile, loc_gathered, last_free_response_part,
                   final_code, pc, interactive, sendVars, req>>

\* /attachments remove <index>; the indexes tried are the first two, the
\* last one and the one after it
StageRemove(index_to_remove) ==
    /\ pc = "staging"
    /\ index_to_remove \in {0, 1, Len(attached_parts) - 1, Len(attached_parts)}
    /\ attached_parts' = attachments_remove(attached_parts, index_to_remove)
    /\ xfer' = [op |-> "remove", index |-> index_to_remove, num |-> Len(attached_parts)]
    /\ UNCHANGED <<history, free_mode, loc_tile, loc_gathered, last_free_response_part,
                   final_code, pc, interactive, sendVars, req>>

\* /attachments clear
StageClear ==
    /\ pc = "staging"
    /\ attached_parts' = free_pending_attachments(attached_parts)
    /\ xfer' = [op |-> "clear", index |-> 0, num |-> Len(attached_parts)]
    /\ UNCHANGED <<history, free_mode, loc_tile, loc_gathered, last_free_response_part,
                   final_code, pc, interactive, sendVars, req>>

NextStaging ==
    \/ \E filepath \in {<<"f">>, <<"g">>}, read_ok \in BOOLEAN : StageAttach(filepath, read_ok)
    \/ \E index_to_remove \in 0..ATTACHMENT_LIMIT : StageRemove(index_to_remove)
    \/ StageClear

SpecStaging == InitStaging /\ [][NextStaging]_vars

(***************************************************************************)
(* gcmd (gcmd.c), a separate program: it asks gcli for a shell command and *)
(* shows, copies or executes it.  One run of main is kept in xfer: the     *)
(* flags, the text generate_command returned, the commands handed to       *)
(* system() for execution (shell), the commands copied (clipboard), the    *)
(* commands the user was asked to confirm (asked) and the exit status.     *)
(* A command is a sequence of tokens; "rm -rf /" and "dd if=" stand for    *)
(* the bytes of two of the dangerous patterns, " " for a blank.            *)
(***************************************************************************)
SEP == "|||"
dangerous_patterns == {"rm -rf /", "dd if="}

\* is_dangerous_command: strstr of every pattern
is_dangerous_command(command) ==
    \E k \in 1..Len(command) : command[k] \in dangerous_patterns

\* "while (*command_only == ' ' ...) command_only++"
RECURSIVE LTrim(_)
LTrim(s) == IF s # <<>> /\ Head(s) = " " THEN LTrim(Tail(s)) ELSE s

\* "while (end > command_only && (*end == ' ' ...)) { *end = 0; end--; }"
RECURSIVE RTrim(_)
RTrim(s) ==
    IF Len(s) > 1 /\ s[Len(s)] = " " THEN RTrim(SubSeq(s, 1, Len(s) - 1)) ELSE s

\* main: the command part of the generated output, trimmed only when the
\* separator is there
command_only(generated_command) ==
    LET separator == strchr(generated_command, SEP) IN
    IF separator = 0 THEN generated_command
    ELSE RTrim(LTrim(SubSeq(generated_command, 1, separator - 1)))

\* what gcli may print for a request
GeneratedOutputs ==
    UNION { [1..n -> {"ls", "rm -rf /", " ", SEP}] : n \in 1..MaxOutput }

InitGcmd ==
    /\ history = <<>> /\ attached_parts = <<>> /\ free_mode = FALSE
    /\ loc_tile = 0 /\ loc_gathered = FALSE
    /\ last_free_response_part = NULL /\ final_code = NULL
    /\ pc = "gcmd_main" /\ interactive = FALSE
    /\ i = 0 /\ http_code = 0 /\ res = CURLE_OK /\ success = FALSE
    /\ chunk = EmptyChunk
    /\ req = NoReq
    /\ \E execute, copy, quiet, dry_run \in BOOLEAN :
          xfer = [execute |-> execute, copy |-> copy, quiet |-> quiet,
                  dry_run |-> dry_run, generated_command |-> NULL,
                  shell |-> <<>>, clipboard |-> <<>>, asked |-> <<>>, status |-> 0,
                  trace |-> <<>>]

\* main up to the call of generate_command, which returns NULL when gcli
\* cannot be run or prints nothing
GenerateCommand(generated_command) ==
    /\ pc = "gcmd_main"
    /\ IF generated_command.nul
       THEN /\ pc' = "gcmd_exit"
            /\ xfer' = [xfer EXCEPT !.status = 1]
       ELSE /\ pc' = "gcmd_output"
            /\ xfer' = [xfer EXCEPT !.generated_command = generated_command]
    /\ UNCHANGED <<appVars, interactive, sendVars, req>>

\* one thing main did with a command: printed it (printf), executed it
\* (system) or handed it to the clipboard tool (copy)
Did(op, cmd) == [op |-> op, cmd |-> cmd]

\* main from "Handle different output modes" to its return; exit_code is
\* what system() reports for the command; trace lists what was done, in the
\* order of the statements
HandleOutput(exit_code) ==
    /\ pc = "gcmd_output"
    /\ pc' = "gcmd_exit"
    /\ LET cmd == command_only(xfer.generated_command.s) IN
       xfer' =
         IF xfer.quiet
         THEN IF xfer.execute
              THEN [xfer EXCEPT !.shell = Append(@, cmd), !.status = exit_code,
                                !.trace = @ \o <<Did("system", cmd)>>]
              ELSE [xfer EXCEPT !.status = 0,
                                !.trace = @ \o <<Did("printf", cmd)>>]
         ELSE IF xfer.dry_run
         THEN [xfer EXCEPT !.status = 0, !.trace = @ \o <<Did("printf", cmd)>>]
         ELSE IF xfer.execute /\ xfer.copy THEN [xfer EXCEPT !.status = 1]
         ELSE IF xfer.execute
         THEN [xfer EXCEPT !.shell = Append(@, cmd), !.status = exit_code,
                           !.trace = @ \o <<Did("printf", cmd), Did("system", cmd)>>]
         ELSE [xfer EXCEPT !.clipboard = Append(@, cmd), !.status = exit_code,
                           !.trace = @ \o <<Did("copy", cmd), Did("printf", cmd)>>]
    /\ UNCHANGED <<appVars, interactive, sendVars, req>>

NextGcmd ==
    \/ \E generated_command \in {NULL} \cup { Str(g) : g \in GeneratedOutputs } :
          GenerateCommand(generated_command)
    \/ \E exit_code \in {0, 1} : HandleOutput(exit_code)

SpecGcmd == InitGcmd /\ [][NextGcmd]_vars

(***************************************************************************)
(* The Protocol A decoder line by line: every callback of one attempt      *)
(* brings one complete line, well-formed or not.  xfer holds the           *)
(* MemoryStruct before the last line (prev), that line, whether the        *)
(* realloc of full_response worked for it, and what the callback returned. *)
(***************************************************************************)
SseLines ==
    { <<>>, <<"b">>, <<"{", "a", "}">>,
      <<DATA, "b">>, <<DATA, "{", "a">>, <<DATA, "o">>,
      <<DATA, "{", "a", "}">>, <<DATA, "{", "b", "}">>, <<DATA, "{", "}">> }

InitLines ==
    /\ history = <<>> /\ attached_parts = <<>> /\ free_mode = FALSE
    /\ loc_tile = 0 /\ loc_gathered = FALSE
    /\ last_free_response_part = NULL /\ final_code = NULL
    /\ pc = "decode_sse" /\ interactive = FALSE
    /\ i = 0 /\ http_code = 0 /\ res = CURLE_OK /\ success = FALSE
    /\ chunk = TracedChunk
    /\ req = NoReq
    /\ xfer = [prev |-> TracedChunk, line |-> NULL, realloc_ok |-> TRUE, ret |-> 0]

\* a callback with the bytes of one line and its newline
DecodeLine(line, realloc_ok) ==
    /\ pc = "decode_sse"
    /\ Len(chunk.lines) < MaxStream
    /\ LET r == write_memory_callback(line \o <<LF>>, chunk, TRUE, realloc_ok) IN
       /\ chunk' = r.mem
       /\ xfer' = [prev |-> chunk, line |-> Str(line), realloc_ok |-> realloc_ok,
                   ret |-> r.ret]
    /\ UNCHANGED <<appVars, pc, interactive, i, http_code, res, success, req>>

NextLines == \E line \in SseLines, realloc_ok \in BOOLEAN : DecodeLine(line, realloc_ok)

SpecLines == InitLines /\ [][NextLines]_vars


(***************************************************************************)
(* Protocol B line by line: the candidate lines of one attempt (those that *)
(* start with '[') are handed to process_free_line one after the other.    *)
(* xfer holds the AppState fields before the last line (prev), that line,  *)
(* what it made the decoder print (shown), everything printed so far (out), *)
(* the lines handled so far (lines) and their number (n).  strdup is taken  *)
(* to succeed.                                                              *)
(***************************************************************************)
FreeLines ==
    { <<"[", "t", "a", "]">>, <<"[", "t", "a", "b", "]">>, <<"[", "t", "]">>,
      <<"[", "c", "a", "]">>, <<"[", "c", "b", "]">>,
      <<"[", "e", "]">>, <<"[", "n", "]">>, <<"[", "i", "]">>,
      <<"[", "u", "]">>, <<"[", "4", "]">>, <<"[", "5", "]">>,
      <<"[", "t", "a">> }

InitFreeLines ==
    /\ history = <<>> /\ attached_parts = <<>> /\ free_mode = TRUE
    /\ loc_tile \in {0, 1} /\ loc_gathered = FALSE
    /\ last_free_response_part = NULL /\ final_code = NULL
    /\ pc = "decode_free_line" /\ interactive = FALSE
    /\ i = 0 /\ http_code = 0 /\ res = CURLE_OK /\ success = FALSE
    /\ chunk = EmptyChunk
    /\ req = NoReq
    /\ xfer = [prev |-> FreeState, line |-> <<>>, shown |-> <<>>, out |-> <<>>,
               lines |-> <<>>, n |-> 0]

\* write_free_memory_callback finds the candidate line in its buffer
DecodeFreeLine(line) ==
    /\ pc = "decode_free_line"
    /\ xfer.n < MaxStream
    /\ LET st == process_free_line(line,
                     [loc_tile |-> loc_tile, loc_gathered |-> loc_gathered,
                      last_free_response_part |-> last_free_response_part,
                      final_code |-> final_code, out |-> <<>>])
       IN  /\ loc_tile' = st.loc_tile
           /\ loc_gathered' = st.loc_gathered
           /\ last_free_response_part' = st.last_free_response_part
           /\ final_code' = st.final_code
           /\ xfer' = [prev |-> FreeState, line |-> line, shown |-> st.out,
                       out |-> xfer.out \o st.out, lines |-> Append(xfer.lines, line),
                       n |-> xfer.n + 1]
    /\ UNCHANGED <<history, attached_parts, free_mode, pc, interactive,
                   i, http_code, res, success, chunk, req>>

NextFreeLines == \E line \in FreeLines : DecodeFreeLine(line)

SpecFreeLines == InitFreeLines /\ [][NextFreeLines]_vars

(***************************************************************************)
(* Prompts with attachments: the session starts with up to MaxStaged       *)
(* files attached on the command line, "f" or "g" each, and handles the    *)
(* initial prompt or, in the interactive loop, prompt lines.  A transfer   *)
(* brings one line per callback (Protocol B: a text or a code line) and    *)
(* ends with status 200 or 400.                                            *)
(***************************************************************************)
MaxStaged == 2

InitTurn ==
    /\ history = <<>>
    /\ free_mode \in BOOLEAN
    /\ loc_tile = 0 /\ loc_gathered = FALSE
    /\ \E n \in 0..MaxStaged : \E names \in [1..n -> {<<"f">>, <<"g">>}] :
          attached_parts = [k \in 1..n |-> AttachedFile(free_mode, names[k])]
    /\ last_free_response_part = NULL /\ final_code = NULL
    /\ pc = "start" /\ interactive \in BOOLEAN
    /\ i = 0 /\ http_code = 0 /\ res = CURLE_OK /\ success = FALSE
    /\ chunk = EmptyChunk
    /\ xfer = NoXfer
    /\ req = NoReq

NextTurn ==
    \/ NoInitialPrompt
    \/ \E parts_ok, add_ok, payload_ok \in BOOLEAN :
          InitialPrompt(<<"p">>, parts_ok, add_ok, payload_ok)
    \/ \E p \in PromptTexts, parts_ok, add_ok, payload_ok \in BOOLEAN :
          PromptApi(p, parts_ok, add_ok, payload_ok)
    \/ \E p \in PromptTexts, prompt_ok, payload_ok \in BOOLEAN :
          PromptFree(p, prompt_ok, payload_ok)
    \/ \E status \in {HTTP_OK, HTTP_BAD_REQUEST} : ApiAttemptStart(TRUE, status)
    \/ ApiCallback(<<DATA, "{", "a", "}", LF>>, TRUE, TRUE)
    \/ ApiTransferEnd(CURLE_OK)
    \/ \E add_ok \in BOOLEAN : FinishApi(add_ok)
    \/ \E status \in {HTTP_OK, HTTP_BAD_REQUEST} : FreeAttemptStart("ok", status)
    \/ \E k \in {"t", "c"} : FreeCallback(<<"[", k, "a", "]", LF>>, TRUE)
    \/ FreeTransferEnd(CURLE_OK)
    \/ \E add_ok \in BOOLEAN : FinishFreeInitial(add_ok)
    \/ \E user_ok, add_ok \in BOOLEAN : FinishFreeInteractive(user_ok, add_ok)

SpecTurn == InitTurn /\ [][NextTurn]_vars

(***************************************************************************)
(* Protocol B under --loc and/or --map: the candidate lines the session    *)
(* receives, over all its attempts and requests, are handed to             *)
(* process_free_line one after the other (nothing but process_free_line    *)
(* writes loc_tile once the options are parsed).                           *)
(***************************************************************************)
LocLines ==
    { <<"[", "l", "a", "]">>, <<"[", "l", "b", "]">>,
      <<"[", "m", "a", "]">>, <<"[", "m", "b", "]">>,
      <<"[", "5", "]">>, <<"[", "t", "a", "]">>, <<"[", "c", "a", "]">>,
      <<"[", "u", "]">>, <<"[", "e", "]">> }

InitLocLines ==
    /\ history = <<>> /\ attached_parts = <<>> /\ free_mode = TRUE
    /\ loc_tile \in 1..3 /\ loc_gathered = FALSE
    /\ last_free_response_part = NULL /\ final_code = NULL
    /\ pc = "decode_free_line" /\ interactive \in BOOLEAN
    /\ i = 0 /\ http_code = 0 /\ res = CURLE_OK /\ success = FALSE
    /\ chunk = EmptyChunk
    /\ req = NoReq
    /\ xfer = [prev |-> FreeState, line |-> <<>>, shown |-> <<>>, out |-> <<>>,
               lines |-> <<>>, n |-> 0]

NextLocLines == \E line \in LocLines : DecodeFreeLine(line)

SpecLocLines == InitLocLines /\ [][NextLocLines]_vars

(***************************************************************************)
(* Properties.                                                             *)
(***************************************************************************)
\* a send function has returned and the caller has not yet acted on the result
Terminal == pc \in {"api_ret", "free_ret"}
InFlight == pc \in {"api_loop", "api_xfer", "free_loop", "free_xfer"}
\* the prompt handler is over
Handled == pc \in {"idle", "exit"}

\* the final response text of the request that has just returned
ResponseText == IF free_mode THEN last_free_response_part ELSE Str(chunk.full_response)
\* the text decoded during the attempt that has just ended
DecodedText == IF free_mode THEN xfer.decoded ELSE Str(chunk.printed)

\* the outcome of an attempt as section 4.4 classifies it
OutcomeSuccess(e) ==
    IF free_mode
    THEN (e.res = CURLE_OK /\ e.code = HTTP_OK) \/ (e.res = CURLE_WRITE_ERROR /\ e.gathered)
    ELSE e.code = HTTP_OK
OutcomeTransient(e) == ~OutcomeSuccess(e) /\ e.sent /\ e.code = HTTP_UNAVAILABLE
\* the attempt was sent and came back complete with HTTP status c
Returned(e, c) == e.sent /\ e.code = c /\ e.status = c /\ (free_mode => e.res = CURLE_OK)
\* so far the attempts have returned the codes of script, in order
FollowsScript(script) ==
    /\ Len(req.log) <= Len(script)
    /\ \A k \in 1..Len(req.log) : Returned(req.log[k], script[k])

\* C1: after a prompt whose request ended in failure, History is the
\* History that existed before the prompt's user Turn was appended.
C1_FailureRestoresHistory ==
    (Handled /\ req.outcome = "failure") => history = req.hist0

\* C2: after a prompt whose request ended in success, History is the
\* pre-prompt History followed by one user Turn and one model Turn whose
\* text is the final response text (the empty string when there is none).
C2_SuccessAppendsUserThenModel ==
    (Handled /\ req.outcome = "success") =>
        LET n == Len(req.hist0) IN
        /\ Len(history) = n + 2
        /\ SubSeq(history, 1, n) = req.hist0
        /\ history[n + 1].role = "user"
        /\ history[n + 2].role = "model"
        /\ history[n + 2].parts =
              <<TextPart(Str(IF req.text.nul THEN <<>> ELSE req.text.s))>>

\* C3: whenever the session is idle, every user Turn of History is
\* immediately followed by a model Turn.
C3_NoUnansweredUserTurn ==
    pc = "idle" =>
        \A k \in 1..Len(history) :
            history[k].role = "user" =>
                (k < Len(history) /\ history[k + 1].role = "model")

\* C4: a request whose attempts return 503, 503, 200 ends after exactly 3
\* attempts and 2 delays, in success, with the text decoded during the
\* third attempt as its response text.
C4_RetryTwiceThenSuccess ==
    (Terminal /\ Len(req.log) > 0 /\ FollowsScript(<<HTTP_UNAVAILABLE, HTTP_UNAVAILABLE, HTTP_OK>>)) =>
        /\ req.attempts = 3
        /\ req.delays = 2
        /\ success
        /\ ResponseText = DecodedText

C6_AtMostThreeAttempts ==
    /\ [](req.attempts <= 3)
    /\ []((Terminal /\ Len(req.log) > 0
             /\ \A k \in 1..Len(req.log) : OutcomeTransient(req.log[k])) =>
                (/\ req.attempts = 3
                 /\ req.delays = 2
                 /\ ~req.log[3].slept
                 /\ ~success))
    /\ (InFlight ~> Terminal)

C6_Witness ==
    /\ Terminal /\ req.attempts = 3 /\ ~success
    /\ \A k \in 1..Len(req.log) : OutcomeTransient(req.log[k])

\* C7: a request during which the reassembly buffer could not be grown is
\* never reported as success.
C7_BufferFailureFailsRequest ==
    (Terminal /\ req.buf_failed) => ~success

\* C8: a Protocol A attempt that ends without any HTTP status yields a
\* negative status value and is the last attempt: the request has failed,
\* with no retry and no delay after it.
C8_TransportFailureIsNegativeAndFinal ==
    ~free_mode =>
        \A k \in 1..Len(req.log) :
            req.log[k].status = 0 =>
                /\ req.log[k].code < 0
                /\ k = Len(req.log)
                /\ Terminal /\ ~success
                /\ ~req.log[k].slept

C8_Witness ==
    /\ ~free_mode /\ Terminal /\ Len(req.log) = 2
    /\ req.log[2].sent /\ req.log[2].status = 0 /\ req.log[2].res = CURLE_COULDNT_CONNECT

\* C9: a Protocol B attempt whose transfer was aborted by the write callback
\* is a terminal success exactly when loc_gathered is true at the end of
\* the attempt, whatever the HTTP status.
C9_AbortIsSuccessIffGathered ==
    free_mode =>
        \A k \in 1..Len(req.log) :
            req.log[k].res = CURLE_WRITE_ERROR =>
                ((k = Len(req.log) /\ Terminal /\ success) <=> req.log[k].gathered)

C9_Witness ==
    /\ free_mode /\ Terminal /\ success /\ Len(req.log) > 0
    /\ req.log[Len(req.log)].res = CURLE_WRITE_ERROR
    /\ req.log[Len(req.log)].code = HTTP_UNAVAILABLE
    /\ req.log[Len(req.log)].gathered

\* C10: whatever the cuts, feeding a stream without NUL bytes in chunks
\* hands the decoder the same lines, in the same order and once each, as
\* feeding it in one chunk, and leaves the same cumulative response.
NoNul(stream) == \A k \in 1..Len(stream) : stream[k] # NUL

C10_SplitInvariance ==
    (pc = "feed" /\ xfer.rest = <<>> /\ NoNul(xfer.stream)) =>
        /\ chunk.lines = xfer.whole.lines
        /\ chunk.full_response = xfer.whole.full_response
        /\ chunk.buffer = xfer.whole.buffer

\* a stream of two lines, the first one decodable and cut inside, fed in
\* more than one chunk
C10_Witness ==
    /\ pc = "feed" /\ xfer.rest = <<>>
    /\ xfer.stream = <<DATA, "{", "a", "}", LF, "b", LF>>
    /\ chunk.lines = << <<DATA, "{", "a", "}">>, <<"b">> >>
    /\ chunk.full_response = <<"a">>

\* C11: whatever the cuts, feeding a Protocol B stream in chunks hands
\* process_free_line the same sequence of lines as feeding it in one chunk.
C11_FreeSplitInvariance ==
    (pc = "feed_free" /\ xfer.rest = <<>>) => xfer.lines = xfer.whole

\* the candidates[0].content.parts[0].text strings of the well-formed
\* "data: " lines among lines, concatenated in order
RECURSIVE WellFormedTexts(_)
WellFormedTexts(lines) ==
    IF lines = <<>> THEN <<>>
    ELSE LET line == Head(lines)
             json == IF StartsWith(line, <<DATA>>) THEN cJSON_Parse_sse(Tail(line))
                     ELSE [valid |-> FALSE, text |-> NULL]
         IN  (IF json.valid /\ ~json.text.nul THEN json.text.s ELSE <<>>)
                \o WellFormedTexts(Tail(lines))

\* C12: at any point of an attempt the text emitted to the user is the
\* concatenation, in stream order, of the texts of the well-formed data
\* lines received so far, and so is the cumulative full response.
C12_EmittedAndAccumulated ==
    pc = "feed" =>
        /\ chunk.printed = WellFormedTexts(chunk.lines)
        /\ chunk.full_response = WellFormedTexts(chunk.lines)

\* the text path is decoded (no side-channel mode) and a line has arrived
FragmentDecoded == pc = "decode_free" /\ loc_tile = 0 /\ ~xfer.frag.nul
PrevLen == IF xfer.prev.nul THEN 0 ELSE Len(xfer.prev.s)
PrevText == IF xfer.prev.nul THEN <<>> ELSE xfer.prev.s

\* C13: a text fragment strictly longer than the Fragment Memory and having
\* it as a prefix makes the decoder print exactly the appended suffix, and
\* Fragment Memory becomes the new fragment.
C13_ExtensionEmitsSuffix ==
    (FragmentDecoded /\ Len(xfer.frag.s) > PrevLen
        /\ SubSeq(xfer.frag.s, 1, PrevLen) = PrevText) =>
        /\ xfer.out = <<[kind |-> "suffix", erase |-> 0,
                         text |-> SubSeq(xfer.frag.s, PrevLen + 1, Len(xfer.frag.s))]>>
        /\ last_free_response_part = xfer.frag

\* "a" then "ab": only "b" is printed
C13_Witness ==
    /\ FragmentDecoded
    /\ xfer.prev = Str(<<"a">>) /\ xfer.frag = Str(<<"a", "b">>)
    /\ xfer.out = <<[kind |-> "suffix", erase |-> 0, text |-> <<"b">>]>>
    /\ last_free_response_part = Str(<<"a", "b">>)

\* C14: a text fragment shorter than a non-empty Fragment Memory makes the
\* decoder print one repaint that erases the length of the remembered
\* fragment and prints the whole new fragment, and Fragment Memory becomes
\* the new fragment.
C14_ShorterRepaints ==
    (FragmentDecoded /\ PrevLen > 0 /\ Len(xfer.frag.s) < PrevLen) =>
        /\ xfer.out = <<[kind |-> "repaint", erase |-> PrevLen, text |-> xfer.frag.s]>>
        /\ last_free_response_part = xfer.frag

\* "aba" then "a": three columns are erased and "a" is printed
C14_Witness ==
    /\ FragmentDecoded
    /\ xfer.prev = Str(<<"a", "b", "a">>) /\ xfer.frag = Str(<<"a">>)
    /\ xfer.out = <<[kind |-> "repaint", erase |-> 3, text |-> <<"a">>]>>
    /\ last_free_response_part = Str(<<"a">>)


\* a save followed by a load of the same file has completed
RoundTripDone == pc = "loaded"
\* every Turn that was saved holds at least one Part
SavedTurnsHaveParts == \A k \in 1..Len(xfer.saved) : Len(xfer.saved[k].parts) > 0

\* C15: saving a History whose Turns hold text, file or mixed Parts and
\* loading the file again yields the same number of Turns with the same
\* roles, the same number of Parts in each, and for every Part the same
\* type, text, mimeType and base64 payload.
C15_RoundTripKeepsParts ==
    (RoundTripDone /\ SavedTurnsHaveParts) =>
        /\ Len(history) = Len(xfer.saved)
        /\ \A k \in 1..Len(xfer.saved) :
              /\ history[k].role = xfer.saved[k].role
              /\ Len(history[k].parts) = Len(xfer.saved[k].parts)
              /\ \A j \in 1..Len(xfer.saved[k].parts) :
                    /\ history[k].parts[j].type = xfer.saved[k].parts[j].type
                    /\ history[k].parts[j].text = xfer.saved[k].parts[j].text
                    /\ history[k].parts[j].mime_type = xfer.saved[k].parts[j].mime_type
                    /\ history[k].parts[j].base64_data = xfer.saved[k].parts[j].base64_data

\* a user Turn of a file and a text followed by a model Turn comes back
C15_Witness ==
    /\ RoundTripDone
    /\ Len(xfer.saved) = 2
    /\ xfer.saved[1].role = "user" /\ Len(xfer.saved[1].parts) = 2
    /\ xfer.saved[1].parts[1].type = "PART_TYPE_FILE"
    /\ xfer.saved[1].parts[2].type = "PART_TYPE_TEXT"
    /\ xfer.saved[2].role = "model"
    /\ Len(history) = 2
    /\ history[1].parts[1].mime_type = Str(<<"m">>)
    /\ history[1].parts[1].base64_data = Str(<<"d">>)
    /\ history[1].parts[2].text = Str(<<"a">>)
    /\ history[2].parts[1].text = Str(<<"b">>)

\* C16: saving a History and loading the file again yields the History that
\* was saved: every File Part with its mimeType, base64 payload and original
\* filename, every Text Part with its text.
C16_RoundTripIsLossless ==
    (RoundTripDone /\ SavedTurnsHaveParts) => history = xfer.saved

C18_TurnsHaveParts ==
    pc \in {"idle", "persist", "loaded"} =>
        \A k \in 1..Len(history) : Len(history[k].parts) > 0

\* a Part with exactly one variant populated
OneVariant(p) ==
    \/ /\ p.type = "PART_TYPE_TEXT"
       /\ ~p.text.nul
       /\ p.mime_type.nul /\ p.base64_data.nul /\ p.filename.nul
    \/ /\ p.type = "PART_TYPE_FILE"
       /\ p.text.nul
       /\ ~p.mime_type.nul /\ ~p.base64_data.nul

\* C19: every Part in History has exactly one variant populated: a Text
\* Part carries text and no mimeType, base64 payload or filename; a File
\* Part carries mimeType and base64 payload and no text.  This holds for
\* Parts appended by the session and for Parts loaded from a file.
C19_PartsHaveOneVariant ==
    \A k \in 1..Len(history) :
        \A j \in 1..Len(history[k].parts) : OneVariant(history[k].parts[j])

\* C20: gcmd hands a command that matches a dangerous pattern to the shell
\* only after the user was asked and confirmed it, whatever the flags.
C20_DangerousNeedsConfirmation ==
    pc \in {"gcmd_output", "gcmd_exit"} =>
        \A k \in 1..Len(xfer.shell) :
            is_dangerous_command(xfer.shell[k]) =>
                \E a \in 1..Len(xfer.asked) : xfer.asked[a] = xfer.shell[k]

\* C21: with --dry-run the generated command is never executed, whatever
\* the other flags are.
C21_DryRunNeverExecutes ==
    (pc \in {"gcmd_output", "gcmd_exit"} /\ xfer.dry_run) => xfer.shell = <<>>

\* C22: whenever gcmd executes the generated command, it has printed the
\* command text before the execution starts.
C22_PrintedBeforeExecuted ==
    pc \in {"gcmd_output", "gcmd_exit"} =>
        \A k \in 1..Len(xfer.trace) :
            xfer.trace[k].op = "system" =>
                \E j \in 1..(k - 1) :
                    xfer.trace[j] = Did("printf", xfer.trace[k].cmd)

\* the text of a well-formed "data: " line, NULL for any other line
LineText(line) ==
    IF StartsWith(line, <<DATA>>) THEN cJSON_Parse_sse(Tail(line)).text ELSE NULL

\* C23: a line that does not begin with "data: ", or whose remainder is not
\* valid JSON, or that lacks the text path, emits nothing, leaves the
\* accumulator as it was and does not stop the stream (the callback reports
\* all its bytes as taken); a well-formed line is decoded whatever lines came
\* before it: its text is emitted, and appended to the accumulator unless
\* the realloc for it fails.
C23_BadLineIsSkipped ==
    (pc = "decode_sse" /\ ~xfer.line.nul) =>
        /\ xfer.ret = Len(xfer.line.s) + 1
        /\ chunk.buffer = <<>>
        /\ IF LineText(xfer.line.s).nul
           THEN /\ chunk.printed = xfer.prev.printed
                /\ chunk.full_response = xfer.prev.full_response
           ELSE /\ chunk.printed = xfer.prev.printed \o LineText(xfer.line.s).s
                /\ xfer.realloc_ok =>
                      chunk.full_response =
                          xfer.prev.full_response \o LineText(xfer.line.s).s

\* "a" was decoded, then a line of invalid JSON and a line without the text
\* path were skipped, then "b" is decoded
C23_Witness ==
    /\ pc = "decode_sse"
    /\ chunk.lines = << <<DATA, "{", "a", "}">>, <<DATA, "{", "a">>, <<DATA, "o">>,
                        <<DATA, "{", "b", "}">> >>
    /\ chunk.printed = <<"a", "b">>
    /\ chunk.full_response = <<"a", "b">>

\* an attempt has just started: its transfer is set up and no callback ran
AttemptStarts == pc \in {"api_xfer", "free_xfer"} /\ xfer.ncb = 0

\* C24: at the start of every attempt, re-attempts included, the reassembly
\* buffer is empty and so is the decoded-response state carried into the
\* attempt: the accumulator of Protocol A, the Fragment Memory of Protocol B.
C24_AttemptStartsClean ==
    AttemptStarts =>
        /\ chunk.buffer = <<>>
        /\ pc = "api_xfer" => chunk.full_response = <<>>
        /\ pc = "free_xfer" => last_free_response_part = NULL

\* the body the send function builds from History h for the request observed
BodyOf(h) ==
    IF free_mode THEN build_free_request_payload(h, req.prompt, TRUE)
    ELSE compressed_result(h, TRUE)

\* C25: the request body is built once, before the first attempt, from
\* History as it is when the send function is entered; every attempt of the
\* request sends that same body; and History is not modified from the first
\* attempt to the terminal outcome.
C25_OnePayloadPerRequest ==
    /\ [](InFlight \/ Terminal =>
            /\ history = req.hist1
            /\ ~req.payload.nul => req.payload = BodyOf(req.hist1)
            /\ \A k \in 1..Len(req.log) :
                  req.log[k].sent => req.log[k].payload = BodyOf(req.hist1))
    /\ [][InFlight => req'.payload = req.payload /\ history' = history]_vars

\* a request answered 503, then 200: two attempts were sent
C25_Witness ==
    /\ Terminal
    /\ success
    /\ Len(req.log) = 2
    /\ req.log[1].sent /\ req.log[1].code = 503
    /\ req.log[2].sent /\ req.log[2].code = 200
    /\ ~req.payload.nul

\* add_content_to_history was called for the prompt before the request and
\* found no memory (the interactive free-mode path makes no such call)
AppendFailed == (~free_mode \/ req.path = "initial") /\ ~req.added

\* C26: in both protocol modes, on the initial-prompt path and on the
\* interactive path, the user Turn of the prompt is appended to History
\* before the request is issued: while the request is in flight History is
\* History as it was when the prompt was submitted, followed by a user Turn
\* (granted that the append, where it is made, finds the memory it needs).
C26_UserTurnPrecedesRequest ==
    InFlight /\ ~AppendFailed =>
        /\ Len(history) = Len(req.hist0) + 1
        /\ SubSeq(history, 1, Len(req.hist0)) = req.hist0
        /\ history[Len(history)].role = "user"

InTransfer == pc \in {"api_xfer", "free_xfer"}

ResponseLine ==
    /\ pc = "decode_free_line" /\ xfer.n > 0
    /\ xfer.prev.loc_tile = 0
    /\ Len(xfer.line) >= 3 /\ xfer.line[Len(xfer.line)] = "]"
    /\ xfer.line[2] \in {"t", "c", "u", "4", "5"}

\* what the last line printed for text fragments
ShownText == SelectSeq(xfer.shown, LAMBDA e : e.kind \in {"suffix", "repaint"})

\* C29: a candidate line of Protocol B on which the text path (4,0,1,0) is
\* missing or does not end in a string leaves the Fragment Memory unchanged
\* and prints no text; one on which the code path (4,0,30,0,4) is missing or
\* does not end in a string leaves the code buffer unchanged.  Neither
\* reports an error, and a later line that carries a string is decoded as
\* usual: its text against the Fragment Memory, its code into the buffer.
C29_MissingPathIsSkipped ==
    ResponseLine =>
        /\ \A e \in 1..Len(xfer.shown) : xfer.shown[e].kind \notin {"error", "code"}
        /\ IF xfer.line[2] = "t"
           THEN /\ last_free_response_part = Str(SubSeq(xfer.line, 3, Len(xfer.line) - 1))
                /\ ShownText = free_emission(xfer.prev.last_free_response_part,
                                              SubSeq(xfer.line, 3, Len(xfer.line) - 1))
           ELSE /\ last_free_response_part = xfer.prev.last_free_response_part
                /\ ShownText = <<>>
        /\ IF xfer.line[2] = "c"
           THEN final_code = Str(SubSeq(xfer.line, 3, Len(xfer.line) - 1))
           ELSE final_code = xfer.prev.final_code

\* "a" was decoded, two lines without a string on either path were
\* skipped, then the text "ab" is decoded against "a"
C29_Witness ==
    /\ pc = "decode_free_line"
    /\ xfer.prev.loc_tile = 0
    /\ xfer.lines = << <<"[", "t", "a", "]">>, <<"[", "u", "]">>, <<"[", "4", "]">>,
                       <<"[", "t", "a", "b", "]">> >>
    /\ xfer.prev.last_free_response_part = Str(<<"a">>)
    /\ xfer.out = <<[kind |-> "suffix", erase |-> 0, text |-> <<"a">>],
                    [kind |-> "suffix", erase |-> 0, text |-> <<"b">>]>>
    /\ final_code = NULL

\* the code displays among the events evs
CodeShown(evs) == SelectSeq(evs, LAMBDA e : e.kind = "code")
\* the lines among ls that carry a code string
CodeLines(ls) == SelectSeq(ls, LAMBDA l : Len(l) >= 3 /\ l[2] = "c" /\ l[Len(l)] = "]")

\* C30: a code string found on the code path replaces the code buffered
\* before; the buffered code is displayed only by a line that lacks element
\* [0][2], as it was buffered last; the buffer is empty right after the
\* display, so that a code block is displayed at most once.
C30_CodeBlockShownOnce ==
    pc = "decode_free_line" /\ xfer.n > 0 =>
        /\ IF xfer.line = <<"[", "e", "]">>
           THEN /\ CodeShown(xfer.shown) = code_display(xfer.prev.final_code)
                /\ final_code = NULL
           ELSE CodeShown(xfer.shown) = <<>>
        /\ CodeLines(<<xfer.line>>) # <<>> /\ xfer.prev.loc_tile = 0 =>
              final_code = Str(SubSeq(xfer.line, 3, Len(xfer.line) - 1))
        /\ Len(CodeShown(xfer.out)) <= Len(CodeLines(xfer.lines))

\* the code "a" was buffered, replaced by "b", displayed by the line that
\* ends the block, and a second such line displays nothing
C30_Witness ==
    /\ pc = "decode_free_line"
    /\ xfer.lines = << <<"[", "c", "a", "]">>, <<"[", "c", "b", "]">>,
                       <<"[", "e", "]">>, <<"[", "e", "]">> >>
    /\ xfer.out = <<[kind |-> "code", erase |-> 0, text |-> <<"b">>]>>
    /\ final_code = NULL

\* the displays of the given kind among the events evs
Displays(evs, kind) == SelectSeq(evs, LAMBDA e : e.kind = kind)

\* C31: under --loc/--map the value of inner[5][0] (bit 0) and the value of
\* inner[5][4] (bit 1) are each printed at most once per session; printing
\* a value clears its request bit and sets the done bit 4; bit 1 is served
\* only by a line processed while bit 0 is not pending; and no line changes
\* the Fragment Memory while loc_tile is non-zero.
C31_SideChannelServedOnce ==
    pc = "decode_free_line" /\ xfer.n > 0 /\ xfer.prev.loc_tile > 0 =>
        /\ Len(Displays(xfer.out, "loc")) <= 1
        /\ Len(Displays(xfer.out, "map")) <= 1
        /\ Displays(xfer.shown, "loc") # <<>> =>
              /\ Bit(xfer.prev.loc_tile, 1)
              /\ loc_tile = SetBit(ClearBit(xfer.prev.loc_tile, 1), 4)
        /\ Displays(xfer.shown, "map") # <<>> =>
              /\ Bit(xfer.prev.loc_tile, 2) /\ ~Bit(xfer.prev.loc_tile, 1)
              /\ loc_tile = SetBit(ClearBit(xfer.prev.loc_tile, 2), 4)
        /\ xfer.shown = <<>> => loc_tile = xfer.prev.loc_tile
        /\ last_free_response_part = xfer.prev.last_free_response_part

\* --loc --map: the map value arrives first and is not served, then the
\* loc value is printed, then the map value, and a second loc value is not
C31_Witness ==
    /\ pc = "decode_free_line"
    /\ xfer.lines = << <<"[", "m", "a", "]">>, <<"[", "l", "a", "]">>,
                       <<"[", "m", "b", "]">>, <<"[", "l", "b", "]">> >>
    /\ xfer.out = <<[kind |-> "loc", erase |-> 0, text |-> <<"a">>],
                    [kind |-> "map", erase |-> 0, text |-> <<"b">>]>>
    /\ loc_tile = 4

\* the user Turn of the prompt being handled: the staged Parts in staging
\* order, then the prompt text when there is one
PromptTurn ==
    [role |-> "user",
     parts |-> req.staged \o
                  (IF req.prompt # <<>> THEN <<TextPart(Str(req.prompt))>> ELSE <<>>)]

\* C32: when a prompt is submitted in Protocol A mode with k pending
\* attachments, the user Turn appended consists of those k Parts in staging
\* order followed by the prompt text Part (only if the text is not empty),
\* and the pending attachments are empty from the moment it is appended.
C32_TurnIsStagedPartsThenText ==
    ~free_mode /\ (InFlight \/ Terminal) =>
        /\ attached_parts = <<>>
        /\ req.added => history = Append(req.hist0, PromptTurn)

\* a prompt line submitted with the files f and g attached, in that order
C32_Witness ==
    /\ ~free_mode
    /\ pc = "api_loop"
    /\ req.path = "interactive" /\ req.log = <<>>
    /\ Len(req.staged) = 2
    /\ history = << [role |-> "user",
                     parts |-> << FilePart(Str(<<"m">>), Str(<<"d">>), Str(<<"f">>)),
                                  FilePart(Str(<<"m">>), Str(<<"d">>), Str(<<"g">>)),
                                  TextPart(Str(<<"p">>)) >>] >>

\* C33: a Protocol A request is reported as successful only if the transfer
\* of its last attempt ended without a transport error: a transfer that is
\* interrupted or aborted after the status 200 has arrived does not make the
\* request succeed (and so its partial text is not committed).
C33_SuccessNeedsCompleteTransfer ==
    pc = "api_ret" /\ success => res = CURLE_OK

\* C34: after any sequence of text fragments of one response, the text the
\* user sees (the result of the suffix and repaint operations printed so
\* far) is the Fragment Memory, also when a fragment has the length of the
\* remembered one or is longer without having it as a prefix.
C34_DisplayIsFragmentMemory ==
    pc = "decode_free" /\ loc_tile = 0 =>
        visible(xfer.screen.cols) =
            (IF last_free_response_part.nul THEN <<>> ELSE last_free_response_part.s)

\* C35: the Protocol B code buffer is empty when a request starts: code
\* buffered during one request and not displayed before that request ended
\* is not there to be displayed during a later request.
C35_CodeBufferEmptyAtRequestStart ==
    pc = "free_loop" /\ req.log = <<>> => final_code = NULL

\* C36: the transcript of every Protocol B payload holds the Turns of the
\* History that preceded the prompt, once each and in order, and then the
\* new prompt exactly once, as the final "User:" entry; on the initial-prompt
\* path and on the interactive path.
C36_TranscriptIsHistoryThenPrompt ==
    free_mode /\ (InFlight \/ Terminal) /\ ~req.payload.nul =>
        req.payload.transcript = full_transcript(req.hist0, req.prompt)

\* C37: after a prompt submission that issues a request the pending
\* attachments are empty, while the request runs and after it, whatever its
\* outcome: the rollback of the user Turn of a failed request does not put
\* back the attachments that were staged for it.
C37_PendingEmptyAfterSubmission ==
    (InFlight \/ Terminal \/ (Handled /\ req.outcome # "none")) =>
        attached_parts = <<>>

\* a prompt submitted with two attachments, its request failed, the user
\* Turn rolled back: History is as before, the attachments are gone
C37_Witness ==
    /\ Handled
    /\ req.outcome = "failure"
    /\ req.added
    /\ Len(req.staged) = 2
    /\ history = req.hist0
    /\ attached_parts = <<>>

\* the bytes of the stream that have been delivered to the callback
Received == SubSeq(xfer.stream, 1, Len(xfer.stream) - Len(xfer.rest))

\* the positions of the newlines of s
Newlines(s) == { k \in 1..Len(s) : s[k] = LF }

\* the lines of s that are terminated by a newline, in order
RECURSIVE TerminatedLines(_)
TerminatedLines(s) ==
    IF Newlines(s) = {} THEN <<>>
    ELSE LET e == CHOOSE k \in Newlines(s) : \A j \in Newlines(s) : k <= j
         IN  <<SubSeq(s, 1, e - 1)>> \o TerminatedLines(From(s, e + 1))

\* the bytes of s after its last newline
UnterminatedTail(s) ==
    IF Newlines(s) = {} THEN s
    ELSE From(s, 1 + CHOOSE k \in Newlines(s) : \A j \in Newlines(s) : j <= k)

IsPrefix(s, t) == Len(s) <= Len(t) /\ SubSeq(t, 1, Len(s)) = s

\* C38: bytes received after the last newline are never handed to a decoder,
\* in both protocols.  Wherever the transfer stops, the lines the Protocol A
\* decoder has seen are newline-terminated lines of the bytes received, in
\* order (all of them when no NUL byte blocks the scan), the emitted text and
\* the accumulator are the texts of those lines, and the unterminated tail
\* is still in the buffer; every line the Protocol B decoder has seen is a
\* newline-terminated line of the bytes received (less the anti-hijacking
\* prefix the callback strips), Fragment Memory comes from the last of them,
\* and the unterminated tail is still in the buffer.
C38_UnterminatedTailNotDecoded ==
    /\ pc = "feed" =>
          /\ IsPrefix(chunk.lines, TerminatedLines(Received))
          /\ chunk.printed = WellFormedTexts(chunk.lines)
          /\ chunk.full_response = WellFormedTexts(chunk.lines)
          /\ NoNul(Received) =>
                /\ chunk.lines = TerminatedLines(Received)
                /\ chunk.buffer = UnterminatedTail(Received)
    /\ pc = "feed_free" =>
          /\ Len(xfer.lines) <= Len(TerminatedLines(Received))
          /\ \A n \in 1..Len(xfer.lines) :
                \E k \in 1..Len(TerminatedLines(Received)) :
                    TerminatedLines(Received)[k]
                        \in { xfer.lines[n], FREE_PREFIX \o xfer.lines[n] }
          /\ last_free_response_part =
                IF xfer.lines = <<>> THEN NULL
                ELSE process_free_line(xfer.lines[Len(xfer.lines)],
                                       TracedState).last_free_response_part
          /\ UnterminatedTail(Received) \in { chunk.buffer, FREE_PREFIX \o chunk.buffer }

\* a Protocol A transfer that ended after a complete event line and a second
\* event that has no newline yet: one text emitted, the second event kept
C38_Witness ==
    /\ pc = "feed" /\ xfer.rest = <<>>
    /\ xfer.stream = <<DATA, "{", "a", "}", LF, DATA, "{", "a", "}">>
    /\ chunk.printed = <<"a">>
    /\ chunk.buffer = <<DATA, "{", "a", "}">>

\* the same in Protocol B: the fragment "a" is in Fragment Memory, the
\* unterminated fragment "b" is not
C38_WitnessFree ==
    /\ pc = "feed_free" /\ xfer.rest = <<>>
    /\ xfer.stream = <<"[", "t", "a", "]", LF, "[", "t", "b", "]">>
    /\ last_free_response_part = Str(<<"a">>)
    /\ chunk.buffer = <<"[", "t", "b", "]">>

\* C39: loc_gathered is false when a request starts, and an attempt ends with
\* it true only if a side-channel value was printed during the request (a
\* printed value leaves the done bit 4 in loc_tile).
C39_GatheredOnlyWhenPrinted ==
    /\ pc = "free_loop" /\ req.log = <<>> => ~loc_gathered
    /\ \A n \in DOMAIN req.log : req.log[n].gathered => Bit(loc_tile, 4)

\* C39 line by line: the flag is set only once a value has been printed
C39_GatheredOnlyWhenPrintedLines ==
    pc = "decode_free_line" /\ loc_gathered =>
        Displays(xfer.out, "loc") \o Displays(xfer.out, "map") # <<>>

\* C39, the first half alone
C39_GatheredFalseAtRequestStart ==
    pc = "free_loop" /\ req.log = <<>> => ~loc_gathered

\* C40: in a session started with --loc or --map, loc_tile is non-zero in
\* every state, after the values were printed and after /clear too; no
\* response text is extracted for any prompt of the session: Fragment
\* Memory stays empty, no attempt decodes a fragment, no request returns a
\* text and History, empty at the start, never gets a model Turn.
C40_LocSessionExtractsNoText ==
    /\ loc_tile > 0
    /\ last_free_response_part = NULL
    /\ pc \in {"free_xfer", "free_ret"} => xfer.decoded = NULL
    /\ req.text = NULL
    /\ \A n \in DOMAIN history : history[n].role # "model"

\* the second request of a --loc session: the initial request and a later
\* prompt have both succeeded, the requested value has been printed (only
\* the done bit is left), and History holds the two user Turns alone
C40_Witness ==
    /\ pc = "idle"
    /\ loc_tile = 4
    /\ req.path = "interactive"
    /\ req.outcome = "success"
    /\ Len(req.hist0) = 1
    /\ Len(history) = 2 /\ history[1].role = "user" /\ history[2].role = "user"
    /\ last_free_response_part = NULL

====
